---- MODULE Spec2Model ----
(***************************************************************************)
(* Verification model of the interior-designer scraper:                    *)
(*   - the Designer record, its identity (__hash__/__eq__) and the CSV     *)
(*     exporter (src/models/designer.py, src/utils/exporter.py);           *)
(*   - the pagination driver DirectoryScraper.scrape                       *)
(*     (src/scrapers/directory_scraper.py);                                *)
(*   - the orchestrator scrape_all_sources / main (src/main.py).           *)
(* Python None is the value None below; '' is the empty string.  Strings   *)
(* are drawn from small finite universes and the string functions the code *)
(* uses (lower, strip, substring test, regular expressions) are tabulated  *)
(* on those universes.                                                     *)
(***************************************************************************)
EXTENDS Integers, Sequences, FiniteSets, TLC

VARIABLES
    \* --- Deduplicator applied as a pure function
    dedupIn,        \* argument of CSVExporter._deduplicate
    dedupOut,       \* its return value
    dedupPhase,     \* "input" | "once" | "twice"
    \* --- the persisted output file of one CSVExporter
    fileExists,     \* output_path.exists()
    fileRows,       \* the data rows of the file, in file order (header excluded)
    lastBatch,      \* the designers argument of the latest export (kept by SpecRerun)
    loadFailed,     \* some _load_existing on this file hit its except branch
    allAppendDedup, \* every export so far had append=True and deduplicate=True
    \* --- one DirectoryScraper and its scrape() call
    config,         \* self.config (the site profile)
    max_results,    \* the max_results argument; 0 stands for None
    pc,             \* position in scrape(): "idle", "start", "range", "single",
                    \* "search", "done"
    page_num,       \* page_num of the running loop
    designers,      \* the combined list scrape() builds and returns
    page_results,   \* all_page_designers, stored as self._page_results
    requested,      \* the page URLs fetched so far, in order
    lastDoc,        \* the soup of the latest page fetch (NoSoup: fetch failed)
    \* --- one call of scrape_all_sources and the export that follows it in main
    sources,        \* the sources argument; <<>> stands for None
    single_url,     \* the single_url argument
    mainPc,         \* "idle", "start", "sites", "export", "done"
    sources_to_scrape,
    site_index,            \* position of the for loop in sources_to_scrape
    all_designers,  \* the list scrape_all_sources returns
    scrapeCalled,   \* the sources scraper.scrape was called for, in order
    fetchAttempted, \* the sources whose scrape got as far as a page fetch
    scrapeErrors,   \* the sources whose fault the per-site handler logged
    exportCalls,    \* the CSVExporter.export calls made, in order
    \* --- one BaseScraper with its RateLimiter; times are in half seconds
    min_delay,      \* RateLimiter.min_delay
    time_since_last,\* time.time() - last_request_time, as of now
    sinceRequestEnd,\* time since the latest request ended
    requestGap,     \* sinceRequestEnd when the latest request was issued; -1: none before it
    hadRequest,     \* a request was issued by this scraper
    _robots_parser, \* "None", "read", or "unread" (read() raised)
    robotsCheck,    \* outcome of the robots check of the current fetch
    robotsWarned,   \* the current fetch logged the robots warning
    fetchPc,        \* "idle" or "attempt"
    attempt,        \* the loop variable of _fetch_page
    outcomes,       \* outcome of each request of the current fetch, in order
    backoffs,       \* seconds slept after each failed attempt of the current fetch
    fetchResult,    \* what the latest _fetch_page returned: "soup", "None"; "" before
    fetchCount,     \* calls of _fetch_page that returned
    \* --- one call of the listing search of _scrape_list_page
    locateSoup,     \* the page, by what each layer of the search finds in it
    foundListings,  \* the `listings` the search ends with
    located,        \* the search has run
    \* --- one call of _parse_listing
    listing_soup,   \* the listing, by what the extraction reads from it
    designer,       \* the Designer returned, or NoDesigner
    parsed,         \* _parse_listing has returned
    \* --- one call of Designer._normalize_phone
    phone,          \* the argument
    phoneOut,       \* the result
    phoneAgain,     \* the result of normalizing the result
    phonePc,        \* "input", "once", "twice"
    \* --- what the pages of each source scraped by scrape_all_sources hold
    siteYield,      \* per scrape call: the source, the designers and the
                    \* _page_results a scrape of it returns
    \* --- one call of merge() of scripts/merge_csvs.py
    mergeFiles,     \* the *.csv files of output_dir, in sorted order
    dedupe,         \* the dedupe argument
    master,         \* the rows of master_path
    mergePc,        \* "idle", "input", "done"
    \* --- the scripted browser of the DirectoryScraper, and its waits
    requires_js,    \* self.requires_js
    selenium_helper,\* self.selenium_helper: "None" or "helper"
    driver,         \* the helper's driver: "None", or "open" (a browser session)
    rendered,       \* what the browser of the latest scripted fetch had to give
    delay_between_pages, \* pagination['delay_between_pages'], in seconds
    delays,         \* the pages before which time.sleep(delay_sec) ran
    \* --- one row handed to clean_row of the contact clean-up script
    contactRow,     \* the row as read: its email, phone and zip_code cells
    cleaned,        \* the row after clean_row
    cleanedAgain,   \* the row after a second clean_row
    repairPc        \* "idle", "input", "once", "twice"

dedupVars == <<dedupIn, dedupOut, dedupPhase>>
exportVars == <<fileExists, fileRows, lastBatch, loadFailed, allAppendDedup>>
scrapeVars ==
    <<config, max_results, pc, page_num, designers, page_results, requested,
      lastDoc>>
mainVars ==
    <<sources, single_url, mainPc, sources_to_scrape, site_index, all_designers,
      scrapeCalled, fetchAttempted, scrapeErrors, exportCalls>>
fetchVars ==
    <<min_delay, time_since_last, sinceRequestEnd, requestGap, hadRequest,
      _robots_parser, robotsCheck, robotsWarned, fetchPc, attempt, outcomes,
      backoffs, fetchResult, fetchCount>>
locateVars == <<locateSoup, foundListings, located>>
parseVars == <<listing_soup, designer, parsed>>
phoneVars == <<phone, phoneOut, phoneAgain, phonePc>>
yieldVars == <<siteYield>>
mergeVars == <<mergeFiles, dedupe, master, mergePc>>
sessionVars == <<requires_js, selenium_helper, driver, rendered>>
delayVars == <<delay_between_pages, delays>>
repairVars == <<contactRow, cleaned, cleanedAgain, repairPc>>
asideVars == <<locateVars, parseVars, phoneVars, yieldVars, mergeVars, repairVars>>
laterVars == <<yieldVars, mergeVars, sessionVars, delayVars, repairVars>>
otherVars == <<locateVars, parseVars, phoneVars, laterVars>>
vars == <<dedupVars, exportVars, scrapeVars, mainVars, fetchVars, otherVars>>

-----------------------------------------------------------------------------
(* Bounds of the model *)

MaxLen == 3
MaxBatch == 2
MaxRows == 4
MaxPage == 2
MaxCap == 3
MaxSources == 2
MaxFetches == 2
MaxDuration == 2
MaxIdle == 1
MaxItems == 2
MaxLead == 4
MaxTrail == 2

-----------------------------------------------------------------------------
(* Python values *)

None == "<None>"

Truthy(s) == s # None /\ s # ""

\* Python's `a or b`
Or(a, b) == IF Truthy(a) THEN a ELSE b

\* str.lower() on the string universe of the model
Lower(s) ==
    CASE s = "Acme" -> "acme"
      [] s = "ACME" -> "acme"
      [] s = "Beta" -> "beta"
      [] s = "A@B.co" -> "a@b.co"
      [] s = "You are unable to access a.com" -> "you are unable to access a.com"
      [] s = "You are unable to access b.com" -> "you are unable to access b.com"
      [] s = "Why have I been blocked?" -> "why have i been blocked?"
      [] s = "What can I do to resolve this?" -> "what can i do to resolve this?"
      [] s = "You are unable to access a.com. Why have I been blocked?"
            -> "you are unable to access a.com. why have i been blocked?"
      [] OTHER -> s

\* str.strip(): the strings of the universe that have outer whitespace
Strip(s) ==
    CASE s = " a@b.co " -> "a@b.co"
      [] s = " Acme" -> "Acme"
      [] OTHER -> s

\* re.match(r'^[a-zA-Z0-9._%+-]+@[a-zA-Z0-9.-]+\.[a-zA-Z]{2,}$', email)
EmailPatternMatches(s) == s \in {"a@b.co", "A@B.co"}

_normalize_email(email) ==
    IF ~Truthy(email) THEN None
    ELSE LET e == Lower(Strip(email))
         IN  IF EmailPatternMatches(e) THEN e ELSE None

\* Designer(...) followed by __post_init__ (phone and the other columns are
\* not part of the identity and are left out of the record here)
Designer(name, website, email) ==
    [name |-> name,
     website |-> website,
     email |-> IF Truthy(email) THEN _normalize_email(email) ELSE email]

Names == {"Acme", "acme", "Beta"}
Websites == {None, "ACME"}
RawEmails == {None, "A@B.co", "bad"}

\* every Designer object the exporter can be handed
Designers == {Designer(n, w, e) : n \in Names, w \in Websites, e \in RawEmails}

\* the designers the export specifications draw batches from: two spellings
\* of one firm and another firm that has an email
ExportDesigners ==
    {Designer("Acme", None, None), Designer("acme", None, None),
     Designer("Beta", None, "A@B.co")}

\* sequences over S of length lo..hi
SeqsOf(S, lo, hi) == UNION {[1..n -> S] : n \in lo..hi}

-----------------------------------------------------------------------------
(* Designer.__hash__ and Designer.__eq__ *)

__hash__(d) == <<Lower(d.name), Lower(Or(d.website, Or(d.email, d.name)))>>

EqNameOnly(a, b) == Lower(a.name) = Lower(b.name)

__eq__(a, b) ==
    /\ Lower(a.name) = Lower(b.name)
    /\ Lower(Or(a.website, Or(a.email, ""))) = Lower(Or(b.website, Or(b.email, "")))

\* `designer in seen` for a Python set: same hash bucket, then ==
InSeen(d, seen) == \E s \in seen : __hash__(s) = __hash__(d) /\ __eq__(s, d)

-----------------------------------------------------------------------------
(* CSVExporter._deduplicate *)

RECURSIVE DedupLoop(_, _, _)
DedupLoop(ds, seen, unique) ==
    IF ds = <<>> THEN unique
    ELSE LET d == Head(ds)
         IN  IF ~InSeen(d, seen)
             THEN DedupLoop(Tail(ds), seen \cup {d}, Append(unique, d))
             ELSE DedupLoop(Tail(ds), seen, unique)

RECURSIVE DedupKeepLast(_)
DedupKeepLast(ds) ==
    IF ds = <<>> THEN <<>>
    ELSE LET d == Head(ds)
             rest == Tail(ds)
         IN  IF \E i \in 1..Len(rest) : InSeen(d, {rest[i]})
             THEN DedupKeepLast(rest)
             ELSE <<d>> \o DedupKeepLast(rest)

_deduplicate(ds) == DedupLoop(ds, {}, <<>>)

-----------------------------------------------------------------------------
(* Designer.to_dict, csv.DictWriter / DictReader, CSVExporter._load_existing *)

\* the row written for a designer: None becomes ''
to_dict(d) ==
    [name |-> d.name, website |-> Or(d.website, ""), email |-> Or(d.email, "")]

\* the Designer built from a row read back: '' becomes None, then __post_init__
FromRow(row) == Designer(row.name, Or(row.website, None), Or(row.email, None))

RowsOf(ds) == [i \in 1..Len(ds) |-> to_dict(ds[i])]

\* _load_existing: every row in file order; when reading raises part-way the
\* except branch returns the n rows appended before the fault
LoadPrefix(rows, n) == [i \in 1..n |-> FromRow(rows[i])]

_load_existing(rows) == LoadPrefix(rows, Len(rows))

-----------------------------------------------------------------------------
(* CSVExporter.export *)

\* what export leaves in the file; `loaded` is what _load_existing returned
ExportRows(rows, exists, ds, append, deduplicate, loaded) ==
    LET batch == IF deduplicate THEN _deduplicate(ds) ELSE ds
        merging == append /\ exists
        existing == IF merging THEN loaded ELSE <<>>
        towrite == IF merging THEN _deduplicate(existing \o batch) ELSE batch
        mode == IF append /\ existing # <<>> THEN "a" ELSE "w"
    IN  IF mode = "a" THEN rows \o RowsOf(towrite) ELSE RowsOf(towrite)

Export(ds, append, deduplicate, nLoaded) ==
    /\ ds # <<>>
    /\ nLoaded \in 0..Len(fileRows)
    /\ (nLoaded < Len(fileRows)) => (append /\ fileExists)
    /\ LET loaded == LoadPrefix(fileRows, nLoaded)
           rows == ExportRows(fileRows, fileExists, ds, append,
                              deduplicate, loaded)
       IN  /\ Len(rows) <= MaxRows
           /\ fileRows' = rows
    /\ fileExists' = TRUE
    /\ loadFailed' = (loadFailed \/ nLoaded < Len(fileRows))
    /\ allAppendDedup' = (allAppendDedup /\ append /\ deduplicate)
    /\ UNCHANGED <<dedupVars, scrapeVars, mainVars, fetchVars, otherVars>>

\* export([]) logs "No ds to export" and returns
ExportNothing == UNCHANGED vars

-----------------------------------------------------------------------------
(* _deduplicate applied to a bounded input, and to its own output *)

Deduplicate ==
    /\ dedupPhase = "input"
    /\ dedupOut' = _deduplicate(dedupIn)
    /\ dedupPhase' = "once"
    /\ UNCHANGED <<dedupIn, exportVars, scrapeVars, mainVars, fetchVars, otherVars>>

DeduplicateAgain ==
    /\ dedupPhase = "once"
    /\ dedupIn' = dedupOut
    /\ dedupOut' = _deduplicate(dedupOut)
    /\ dedupPhase' = "twice"
    /\ UNCHANGED <<exportVars, scrapeVars, mainVars, fetchVars, otherVars>>

-----------------------------------------------------------------------------
(* Fetched documents and listings *)

\* a listing sub-tree, by what the extractor reads from it: the text its name
\* selector yields, the website it resolves to and the email its detail page
\* gives
Listing(name) == [name |-> name, website |-> None, detailEmail |-> None]

\* re.sub(r'^\d+\.?\s*', '', name).strip(), the suffix removals and
\* ' '.join(name.split()) on the name universe
CleanName(name) ==
    CASE name = "1. Acme" -> "Acme"
      [] name = "2.  Beta " -> "Beta"
      [] OTHER -> name

\* the names _parse_listing returns None for: no name found, a name shorter
\* than 2 characters, one of invalid_patterns
NameRejected(name) == name \in {"", "X", "Loading..."}

\* the None a function returns in place of an object
NoObject == [none |-> TRUE]

NoDesigner == NoObject

_parse_listing(listing) ==
    LET name == IF listing.name # "" THEN CleanName(listing.name) ELSE listing.name
    IN  IF NameRejected(name) THEN NoDesigner
        ELSE Designer(name, listing.website,
                      IF Truthy(listing.website) THEN listing.detailEmail ELSE None)

LAcme == Listing("1. Acme")
LBeta == Listing("2.  Beta ")
LNoName == Listing("")
LUnableA == Listing("You are unable to access a.com")
LUnableB == Listing("You are unable to access b.com")
LWhy == Listing("Why have I been blocked?")
LWhat == Listing("What can I do to resolve this?")
LUnableWhy == Listing("You are unable to access a.com. Why have I been blocked?")

\* the selectors of selectors['next_page']
NextSelectors == <<"a[aria-label=Next]", ".hz-pagination-next">>

\* a soup, by the listings the locator finds in it and the next-page
\* selectors that match in it
Doc(listings, next) == [listings |-> listings, next |-> next]

\* the listing sets a fetched page can hold
PageListings ==
    {<<>>, <<LNoName>>, <<LAcme, LNoName, LBeta>>,
     <<LUnableA, LWhy, LWhat>>, <<LUnableA, LWhy, LBeta>>,
     <<LUnableA, LUnableB, LAcme>>, <<LUnableWhy, LAcme, LBeta>>,
     <<LUnableA, LWhy, LWhat, LAcme>>}

ListDocs == {Doc(l, {}) : l \in PageListings}

SearchDocs ==
    {Doc(l, nx) : l \in {<<>>, <<LNoName>>, <<LAcme, LNoName, LBeta>>},
                  nx \in {{}, {NextSelectors[2]}}}

\* _fetch_page / _fetch_page_with_selenium: a soup, or None
NoSoup == NoObject

FetchOutcomes(docs) == docs \cup {NoSoup}

-----------------------------------------------------------------------------
(* Site profiles *)

\* delay_between_pages: absent (0), or the 30 seconds of rethinkingthefuture
PageDelays == {0, 30}

ListUrl == <<"list_url", 0>>

\* lines 92-97: the URL of page page_num of a paginated list
RangePageUrl(page, first_page_no_suffix) ==
    IF page = 1 /\ first_page_no_suffix THEN ListUrl ELSE <<"list_url", page>>

\* _build_page_url
_build_page_url(page) == IF page = 1 THEN <<"search", 0>> ELSE <<"search", page>>

\* config['list_urls'] of the rethinkingthefuture profile: pages 2, 3 of the list
ListUrls == <<<<"list_url", 2>>, <<"list_url", 3>>>>

Profile(list_url, list_urls, enabled, start, end, nosuffix, template) ==
    [list_url |-> list_url, list_urls |-> list_urls, enabled |-> enabled,
     start_page |-> start, end_page |-> end, first_page_no_suffix |-> nosuffix,
     search_url_template |-> template]

RangeProfiles ==
    UNION {{Profile(TRUE, lu, TRUE, st, en, ns, FALSE) :
                lu \in {<<>>, ListUrls}, en \in st..MaxPage, ns \in BOOLEAN} :
           st \in 1..2}

SingleProfiles ==
    {Profile(TRUE, lu, FALSE, 1, 1, TRUE, FALSE) : lu \in {<<>>, ListUrls}}

SearchProfiles == {Profile(FALSE, <<>>, FALSE, 1, 1, TRUE, TRUE)}

EmptyProfiles == {Profile(FALSE, <<>>, FALSE, 1, 1, TRUE, FALSE)}

Profiles == RangeProfiles \cup SingleProfiles \cup SearchProfiles \cup EmptyProfiles

-----------------------------------------------------------------------------
(* DirectoryScraper._scrape_list_page, _is_block_page_result, _has_next_page *)

\* `max_results and len(designers) >= max_results`
CapReachedStrict(n, max) == max # 0 /\ n > max

CapReached(n, max) == max # 0 /\ n >= max

\* the loop over listings of _scrape_list_page: parse, append, stop at the cap
RECURSIVE ParseListings(_, _, _)
ParseListings(listings, max, acc) ==
    IF listings = <<>> THEN acc
    ELSE LET d == _parse_listing(Head(listings))
         IN  IF d = NoDesigner THEN ParseListings(Tail(listings), max, acc)
             ELSE IF CapReached(Len(acc) + 1, max) THEN Append(acc, d)
             ELSE ParseListings(Tail(listings), max, Append(acc, d))

_scrape_list_page(soup, max) == ParseListings(soup.listings, max, <<>>)

BlockPageSize == 3
BlockPhraseMin == 2

block_phrases ==
    {"you are unable to access", "why have i been blocked",
     "what can i do to resolve"}

\* `ph in n` for a block phrase ph and a lowercased name n
PhraseIn(ph, n) ==
    CASE ph = "you are unable to access" ->
            n \in {"you are unable to access a.com",
                   "you are unable to access b.com",
                   "you are unable to access a.com. why have i been blocked?"}
      [] ph = "why have i been blocked" ->
            n \in {"why have i been blocked?",
                   "you are unable to access a.com. why have i been blocked?"}
      [] ph = "what can i do to resolve" ->
            n = "what can i do to resolve this?"
      [] OTHER -> FALSE

LowerNames(ds) == {Lower(Strip(ds[i].name)) : i \in 1..Len(ds)}

IsBlockAllPhrases(ds) ==
    /\ Len(ds) = BlockPageSize
    /\ \A ph \in block_phrases : \E n \in LowerNames(ds) : PhraseIn(ph, n)

_is_block_page_result(ds) ==
    /\ Len(ds) = BlockPageSize
    /\ Cardinality({ph \in block_phrases :
                        \E n \in LowerNames(ds) : PhraseIn(ph, n)})
           >= BlockPhraseMin

BlockCheckAlways(page) == TRUE

\* line 110: the heuristic is consulted for `page_num > 1`
BlockCheckApplies(page) == page > 1

HasNextAlways(soup) == TRUE

_has_next_page(soup) ==
    \E i \in 1..Len(NextSelectors) : NextSelectors[i] \in soup.next

\* designers[:max_results]
Truncate(ds, max) == SubSeq(ds, 1, IF Len(ds) < max THEN Len(ds) ELSE max)

-----------------------------------------------------------------------------
(* The scripted browser: SeleniumHelper and _fetch_page_with_selenium *)

\* the parameters SeleniumHelper.__init__ declares besides self
HelperParameters == {"headless", "wait_time"}

\* the keyword arguments both constructions of the helper pass
HelperKeywords == {"headless", "wait_time", "stealth", "use_undetected", "proxy"}

\* the parameters SeleniumHelper.get_soup declares besides self and url
GetSoupParameters == {"wait_for_selector", "wait_time"}

\* the keyword arguments _fetch_page_with_selenium passes to get_soup
GetSoupKeywords == {"wait_for_selector", "timeout"}

KeywordsUnchecked(keywords, parameters) == TRUE

\* a call binds only when every keyword names a parameter; otherwise it
\* raises TypeError
KeywordsAccepted(keywords, parameters) == keywords \subseteq parameters

\* what the network or the browser has to give for one page: the document
\* (NoSoup: the request or the navigation fails), whether a driver can be
\* created, whether the awaited selector shows up before the timeout
PageOutcome(soup, created, appeared) ==
    [soup |-> soup, created |-> created, appeared |-> appeared]

PageOutcomes(docs) ==
    {PageOutcome(NoSoup, c, FALSE) : c \in BOOLEAN}
        \cup {PageOutcome(d, TRUE, a) : d \in docs, a \in BOOLEAN}

\* _fetch_page_with_selenium with get_soup / get_page_source: the soup it
\* returns and the helper and driver it leaves.  A TypeError of either call
\* is caught at line 486; a driver that cannot be created, a failed
\* navigation and an empty page source give None; a selector that does not
\* show up is logged only.
ScriptedFetch(helper, drv, out) ==
    IF helper = "None" /\ ~KeywordsAccepted(HelperKeywords, HelperParameters)
    THEN [soup |-> NoSoup, helper |-> "None", driver |-> drv]
    ELSE IF ~KeywordsAccepted(GetSoupKeywords, GetSoupParameters)
    THEN [soup |-> NoSoup, helper |-> "helper", driver |-> drv]
    ELSE IF drv = "None" /\ ~out.created
    THEN [soup |-> NoSoup, helper |-> "helper", driver |-> "None"]
    ELSE [soup |-> out.soup, helper |-> "helper", driver |-> "open"]

\* lines 102-105, 149-153: the fetch of a list page
FetchListPage(js, helper, drv, out) ==
    IF js THEN ScriptedFetch(helper, drv, out)
    ELSE [soup |-> out.soup, helper |-> helper, driver |-> drv]

\* for a plain request only the document matters
PlainOutcome(js, out) == js \/ (out.created /\ ~out.appeared)

-----------------------------------------------------------------------------
(* DirectoryScraper.scrape *)

\* lines 54-80, 144-146, 165-177: dispatch on the profile; a paginated list
\* that requires JavaScript constructs its SeleniumHelper here, and the
\* TypeError of that call leaves scrape
ScrapeStart ==
    /\ pc = "start"
    /\ LET ranged == config.list_url /\ config.enabled
           constructs == ranged /\ requires_js /\ selenium_helper = "None"
           binds == KeywordsAccepted(HelperKeywords, HelperParameters)
       IN  /\ pc' = IF config.list_url
                    THEN (IF config.enabled
                          THEN (IF constructs /\ ~binds THEN "fault" ELSE "range")
                          ELSE "single")
                    ELSE (IF config.search_url_template THEN "search" ELSE "done")
           /\ selenium_helper' =
                  IF constructs /\ binds THEN "helper" ELSE selenium_helper
    /\ page_num' = IF config.list_url /\ config.enabled THEN config.start_page ELSE 1
    /\ UNCHANGED <<config, max_results, designers, page_results, requested,
                   lastDoc, dedupVars, exportVars, mainVars, fetchVars,
                   asideVars, requires_js, driver, rendered, delayVars>>

SleepsBeforeFirst(page, start) == TRUE

AfterFailedPageBreak(page, end) == end + 1

\* lines 130-132: a page that could not be fetched is logged and the loop
\* continues with the next page
AfterFailedPage(page, end) == page + 1

\* line 86: the delay is for the pages after the first of the range
SleepsBefore(page, start) == page > start

\* lines 84-143: one iteration of the page loop of a paginated list; the
\* break at the cap goes on to the clean-up of lines 134-143
RangePage(out) ==
    /\ pc = "range"
    /\ page_num <= config.end_page
    /\ PlainOutcome(requires_js, out)
    /\ delays' = IF SleepsBefore(page_num, config.start_page)
                    /\ delay_between_pages > 0
                 THEN Append(delays, page_num) ELSE delays
    /\ requested' = Append(requested,
                           RangePageUrl(page_num, config.first_page_no_suffix))
    /\ rendered' = IF requires_js THEN out ELSE rendered
    /\ LET fetch == FetchListPage(requires_js, selenium_helper, driver, out)
           soup == fetch.soup
       IN  /\ lastDoc' = soup
           /\ IF soup # NoSoup
              THEN LET found == _scrape_list_page(soup, max_results)
                       page_designers ==
                           IF BlockCheckApplies(page_num) /\ _is_block_page_result(found)
                           THEN <<>> ELSE found
                       combined == designers \o page_designers
                   IN  /\ page_results' =
                              Append(page_results,
                                     [page_num |-> page_num, designers |-> page_designers])
                       /\ IF CapReached(Len(combined), max_results)
                          THEN /\ designers' = Truncate(combined, max_results)
                               /\ pc' = "done"
                               /\ page_num' = page_num
                               /\ selenium_helper' = "None"
                               /\ driver' = "None"
                          ELSE /\ designers' = combined
                               /\ pc' = "range"
                               /\ page_num' = page_num + 1
                               /\ selenium_helper' = fetch.helper
                               /\ driver' = fetch.driver
              ELSE /\ page_num' = AfterFailedPage(page_num, config.end_page)
                   /\ selenium_helper' = fetch.helper
                   /\ driver' = fetch.driver
                   /\ UNCHANGED <<designers, page_results, pc>>
    /\ UNCHANGED <<config, max_results, dedupVars, exportVars, mainVars, fetchVars,
                   asideVars, requires_js, delay_between_pages>>

\* lines 134-143: the range is exhausted; the helper is closed and dropped
RangeEnd ==
    /\ pc = "range"
    /\ page_num > config.end_page
    /\ pc' = "done"
    /\ selenium_helper' = "None"
    /\ driver' = "None"
    /\ UNCHANGED <<config, max_results, page_num, designers, page_results,
                   requested, lastDoc, dedupVars, exportVars, mainVars,
                   fetchVars, asideVars, requires_js, rendered, delayVars>>

\* lines 145-163: a list page without pagination
SinglePage(out) ==
    /\ pc = "single"
    /\ PlainOutcome(requires_js, out)
    /\ requested' = Append(requested, ListUrl)
    /\ rendered' = IF requires_js THEN out ELSE rendered
    /\ LET fetch == FetchListPage(requires_js, selenium_helper, driver, out)
       IN  /\ lastDoc' = fetch.soup
           /\ designers' = IF fetch.soup # NoSoup
                           THEN _scrape_list_page(fetch.soup, max_results)
                           ELSE designers
    /\ selenium_helper' = "None"
    /\ driver' = "None"
    /\ pc' = "done"
    /\ UNCHANGED <<config, max_results, page_num, page_results, dedupVars,
                   exportVars, mainVars, fetchVars, asideVars, requires_js,
                   delayVars>>

\* the loop over listings of lines 200-207: parse, append, return at the cap
RECURSIVE SearchListings(_, _, _)
SearchListings(listings, max, acc) ==
    IF listings = <<>> THEN acc
    ELSE LET d == _parse_listing(Head(listings))
         IN  IF d = NoDesigner THEN SearchListings(Tail(listings), max, acc)
             ELSE IF CapReached(Len(acc) + 1, max) THEN Append(acc, d)
             ELSE SearchListings(Tail(listings), max, Append(acc, d))

\* lines 178-213: one iteration of the search loop
SearchPage(soup) ==
    /\ pc = "search"
    /\ page_num <= MaxPage
    /\ requested' = Append(requested, _build_page_url(page_num))
    /\ lastDoc' = soup
    /\ IF soup = NoSoup
       THEN /\ pc' = "done"
            /\ UNCHANGED <<designers, page_num>>
       ELSE IF soup.listings = <<>>
       THEN /\ pc' = "done"
            /\ UNCHANGED <<designers, page_num>>
       ELSE LET combined == SearchListings(soup.listings, max_results, designers)
            IN  /\ designers' = combined
                /\ IF CapReached(Len(combined), max_results)
                       /\ combined # designers
                   THEN pc' = "done" /\ page_num' = page_num
                   ELSE IF ~_has_next_page(soup)
                   THEN pc' = "done" /\ page_num' = page_num
                   ELSE pc' = "search" /\ page_num' = page_num + 1
    /\ UNCHANGED <<config, max_results, page_results, dedupVars, exportVars,
                   mainVars, fetchVars, otherVars>>

\* lines 178-213 once more than MaxPage pages have been requested: the loop
\* has no page limit and none of its tests reads page_num, so the counter and
\* the request log are followed no further and the exits are those of
\* SearchPage
SearchPageBeyond(soup) ==
    /\ pc = "search"
    /\ page_num > MaxPage
    /\ lastDoc' = soup
    /\ IF soup = NoSoup
       THEN pc' = "done" /\ UNCHANGED designers
       ELSE IF soup.listings = <<>>
       THEN pc' = "done" /\ UNCHANGED designers
       ELSE LET combined == SearchListings(soup.listings, max_results, designers)
            IN  /\ designers' = combined
                /\ pc' = IF CapReached(Len(combined), max_results)
                              /\ combined # designers
                         THEN "done"
                         ELSE IF ~_has_next_page(soup) THEN "done" ELSE "search"
    /\ UNCHANGED <<config, max_results, page_num, requested, page_results,
                   dedupVars, exportVars, mainVars, fetchVars, otherVars>>

\* A KeyboardInterrupt raised while scrape is running (in a sleep of the
\* rate limiter, a back-off, the delay between pages, or a fetch).  It is a
\* BaseException: no `except Exception` of the scrapers or of
\* scrape_all_sources (main.py:111) catches it, scrape is abandoned
\* without returning its designers or assigning _page_results, and the
\* handler of main (main.py:199-200) logs and exports nothing.  `designers`
\* keeps what had been collected when the interrupt arrived.
KeyboardInterrupt ==
    /\ pc \in {"start", "range", "single", "search"}
    /\ pc' = "interrupted"
    /\ UNCHANGED <<config, max_results, page_num, designers, page_results,
                   requested, lastDoc, dedupVars, exportVars, mainVars,
                   fetchVars, otherVars>>

-----------------------------------------------------------------------------
(* config.WEBSITE_CONFIGS and the call main.py makes *)

\* list(config.WEBSITE_CONFIGS.keys()): a query-based directory, a curated
\* list page, and the paginated list that has list_urls and an output_file
ConfiguredSites == <<"yelp", "bocadolobo", "rethinkingthefuture">>

SiteIds == {ConfiguredSites[i] : i \in 1..Len(ConfiguredSites)}

UnknownSite == "nosuch"

WEBSITE_CONFIGS(site) ==
    CASE site = "yelp" -> Profile(FALSE, <<>>, FALSE, 1, 1, TRUE, TRUE)
      [] site = "bocadolobo" -> Profile(TRUE, <<>>, FALSE, 1, 1, TRUE, FALSE)
      [] site = "rethinkingthefuture" ->
            Profile(TRUE, ListUrls, TRUE, 1, 1, TRUE, FALSE)

\* source_config.get('output_file')
HasOutputFile(site) == site = "rethinkingthefuture"

\* the parameters DirectoryScraper.scrape declares besides self
ScrapeParameters == {"search_query", "max_results"}

\* the keyword arguments scrape_all_sources passes to scraper.scrape
ScrapeKeywords == {"search_query", "max_results", "single_url"}

\* Python binds a call only when every keyword names a parameter; otherwise
\* the call raises TypeError before the body runs
CallBinds == ScrapeKeywords \subseteq ScrapeParameters

\* `single_url and single_url.strip()`
UrlGiven(url) == url \notin {None, "", "   "}

SingleUrls == {None, "   ", "https://site/3/"}

-----------------------------------------------------------------------------
(* scrape_all_sources and main *)

\* lines 37-49
MainStart ==
    /\ mainPc = "start"
    /\ IF UrlGiven(single_url) /\ Len(sources) # 1
       THEN /\ mainPc' = "export"
            /\ UNCHANGED sources_to_scrape
       ELSE /\ mainPc' = "sites"
            /\ sources_to_scrape' =
                   IF sources # <<>> THEN sources ELSE ConfiguredSites
    /\ UNCHANGED <<sources, single_url, site_index, all_designers, scrapeCalled,
                   fetchAttempted, scrapeErrors, exportCalls, max_results,
                   config, pc, page_num, designers, page_results, requested,
                   lastDoc, dedupVars, exportVars, fetchVars, otherVars>>

\* the file a source's output_file names (page 0), and
\* f"{base_name}_page{page_num}{base_ext}" for page_num >= 1
OutputPath(site, page) == <<site, page>>

\* GLOBAL_CONFIG['output_file'] / --output
MainOutputPath == <<"output_file", 0>>

\* scraper.scrape's return value together with the _page_results it leaves
\* on the scraper
ScrapeReturn(ds, pages) == [designers |-> ds, page_results |-> pages]

\* what a scrape can hand back: nothing, the designers of an unpaginated
\* source, or the designers of a paginated one with their page batches
ScrapeReturns ==
    {ScrapeReturn(ds, <<>>) : ds \in SeqsOf(ExportDesigners, 0, 1)}
        \cup {ScrapeReturn(ds, <<[page_num |-> 1, designers |-> ds]>>) :
                  ds \in SeqsOf(ExportDesigners, 0, 1)}
        \cup {ScrapeReturn(ds, <<[page_num |-> 1, designers |-> <<>>],
                                 [page_num |-> 2, designers |-> ds]>>) :
                  ds \in SeqsOf(ExportDesigners, 1, 1)}

\* lines 83-94: one export per page batch that holds designers
RECURSIVE PageExports(_, _)
PageExports(site, pages) ==
    IF pages = <<>> THEN <<>>
    ELSE LET page_data == Head(pages)
         IN  (IF page_data.designers # <<>>
              THEN <<[path |-> OutputPath(site, page_data.page_num),
                      designers |-> page_data.designers]>>
              ELSE <<>>) \o PageExports(site, Tail(pages))

\* lines 73-109: where the designers of one source go
SiteExports(site, ret) ==
    IF HasOutputFile(site) /\ ret.designers # <<>>
    THEN (IF ret.page_results # <<>> THEN PageExports(site, ret.page_results)
          ELSE <<>>)
             \o <<[path |-> OutputPath(site, 0), designers |-> ret.designers]>>
    ELSE <<>>

AfterFaultAbort(i, n) == n + 1

\* lines 111-113: the handler of a source's fault ends with `continue`, the
\* loop over the n sources goes on after position i
AfterFault(i, n) == i + 1

\* lines 51-113: one iteration of the loop over sources_to_scrape; `ret` is
\* what the pages of the source hold, which scraper.scrape hands back when
\* the call binds
SiteStep(ret) ==
    /\ mainPc = "sites"
    /\ site_index <= Len(sources_to_scrape)
    /\ (sources_to_scrape[site_index] \in SiteIds /\ ret.page_results # <<>>)
           => WEBSITE_CONFIGS(sources_to_scrape[site_index]).enabled
    /\ sources_to_scrape[site_index] \notin SiteIds => ret = ScrapeReturn(<<>>, <<>>)
    /\ site_index' =
           IF sources_to_scrape[site_index] \in SiteIds /\ ~CallBinds
           THEN AfterFault(site_index, Len(sources_to_scrape))
           ELSE site_index + 1
    /\ LET source_name == sources_to_scrape[site_index]
       IN  IF source_name \notin SiteIds
           THEN UNCHANGED <<all_designers, scrapeCalled, fetchAttempted,
                            scrapeErrors, exportCalls, siteYield>>
           ELSE /\ scrapeCalled' = Append(scrapeCalled, source_name)
                /\ siteYield' =
                       Append(siteYield,
                              [site |-> source_name, designers |-> ret.designers,
                               page_results |-> ret.page_results])
                /\ IF CallBinds
                   THEN /\ fetchAttempted' = fetchAttempted \cup {source_name}
                        /\ exportCalls' = exportCalls \o SiteExports(source_name, ret)
                        /\ all_designers' =
                               IF HasOutputFile(source_name) /\ ret.designers # <<>>
                               THEN all_designers
                               ELSE all_designers \o ret.designers
                        /\ UNCHANGED scrapeErrors
                   ELSE /\ scrapeErrors' = Append(scrapeErrors, source_name)
                        /\ UNCHANGED <<all_designers, fetchAttempted, exportCalls>>
    /\ UNCHANGED <<sources, single_url, mainPc, sources_to_scrape, max_results,
                   config, pc, page_num, designers, page_results, requested,
                   lastDoc, dedupVars, exportVars, fetchVars, locateVars,
                   parseVars, phoneVars, mergeVars, sessionVars, delayVars,
                   repairVars>>

\* lines 115-116 and 191-197: the loop is over, main exports what was returned
MainExport ==
    /\ \/ mainPc = "export"
       \/ mainPc = "sites" /\ site_index > Len(sources_to_scrape)
    /\ mainPc' = "done"
    /\ exportCalls' =
           IF all_designers # <<>>
           THEN Append(exportCalls, [path |-> MainOutputPath, designers |-> all_designers])
           ELSE exportCalls
    /\ UNCHANGED <<sources, single_url, sources_to_scrape, site_index, all_designers,
                   scrapeCalled, fetchAttempted, scrapeErrors, max_results,
                   config, pc, page_num, designers, page_results, requested,
                   lastDoc, dedupVars, exportVars, fetchVars, otherVars>>

-----------------------------------------------------------------------------
(* BaseScraper._fetch_page, _check_robots_txt and RateLimiter.wait *)

\* times are counted in half seconds
Seconds(n) == 2 * n

\* random.uniform(0, self.jitter) with the default jitter of 0.5 s
JitterChoices == {0, 1}

\* DirectoryScraper passes config.get('rate_limit', 1.0); the profiles set 2.0
RateLimits == {Seconds(1), Seconds(2)}

\* elapsed times past this value all behave alike
TimeCap == Seconds(2) + 2

CapTime(t) == IF t > TimeCap THEN TimeCap ELSE t

max_retries == 3

BackoffLinear(n) == 2 * n

\* time.sleep(2 ** attempt)
Backoff(n) == 2 ^ n

RobotsEnforced(allowed) == allowed

\* lines 70-78: a disallow is logged and the fetch goes on
RequestAfterRobots(allowed) == TRUE

\* _check_robots_txt: the first call reads robots.txt; a read that raises
\* leaves a parser that never read, for which can_fetch answers False;
\* `can_fetch` is the answer of a parser that has read (True also stands for
\* a can_fetch that raised)
RobotsOutcome(parser, readOk, can_fetch) ==
    CASE parser = "None" /\ ~readOk -> "unavailable"
      [] parser = "None" /\ readOk -> IF can_fetch THEN "allowed" ELSE "disallowed"
      [] parser = "read" -> IF can_fetch THEN "allowed" ELSE "disallowed"
      [] parser = "unread" -> "disallowed"

_check_robots_txt(parser, readOk, can_fetch) ==
    RobotsOutcome(parser, readOk, can_fetch) # "disallowed"

\* RateLimiter.wait: the time slept, for `since` = time since last_request_time
SleepTime(since, delay) == IF since < delay THEN delay - since ELSE 0

\* _fetch_page up to the retry loop: robots check, warning, rate limiter.
\* `idle` is the time the caller spent since the previous fetch returned.
FetchBegin(idle, readOk, can_fetch, jitter) ==
    /\ fetchPc = "idle"
    /\ fetchCount < MaxFetches
    /\ LET allowed == _check_robots_txt(_robots_parser, readOk, can_fetch)
           since == CapTime(time_since_last + idle)
           sleep_time == SleepTime(since, min_delay + jitter)
       IN  /\ robotsCheck' = RobotsOutcome(_robots_parser, readOk, can_fetch)
           /\ _robots_parser' =
                  IF _robots_parser = "None"
                  THEN (IF readOk THEN "read" ELSE "unread")
                  ELSE _robots_parser
           /\ robotsWarned' = ~allowed
           /\ outcomes' = <<>>
           /\ backoffs' = <<>>
           /\ attempt' = 0
           /\ IF RequestAfterRobots(allowed)
              THEN /\ time_since_last' = 0
                   /\ sinceRequestEnd' = CapTime(sinceRequestEnd + idle + sleep_time)
                   /\ fetchPc' = "attempt"
                   /\ UNCHANGED <<fetchResult, fetchCount>>
              ELSE /\ fetchResult' = "None"
                   /\ fetchCount' = fetchCount + 1
                   /\ time_since_last' = since
                   /\ sinceRequestEnd' = CapTime(sinceRequestEnd + idle)
                   /\ UNCHANGED fetchPc
    /\ UNCHANGED <<min_delay, requestGap, hadRequest, dedupVars, exportVars,
                   scrapeVars, mainVars, otherVars>>

\* one iteration of the retry loop (lines 76-91): a request that takes
\* `duration` and succeeds or fails with a RequestException
FetchAttempt(ok, duration) ==
    /\ fetchPc = "attempt"
    /\ requestGap' = IF hadRequest THEN sinceRequestEnd ELSE -1
    /\ hadRequest' = TRUE
    /\ outcomes' = Append(outcomes, IF ok THEN "ok" ELSE "failed")
    /\ IF ok
       THEN /\ fetchResult' = "soup"
            /\ fetchPc' = "idle"
            /\ fetchCount' = fetchCount + 1
            /\ sinceRequestEnd' = 0
            /\ time_since_last' = CapTime(time_since_last + duration)
            /\ UNCHANGED <<attempt, backoffs>>
       ELSE IF attempt < max_retries - 1
       THEN /\ backoffs' = Append(backoffs, Backoff(attempt))
            /\ attempt' = attempt + 1
            /\ sinceRequestEnd' = CapTime(Seconds(Backoff(attempt)))
            /\ time_since_last' =
                   CapTime(time_since_last + duration + Seconds(Backoff(attempt)))
            /\ UNCHANGED <<fetchPc, fetchResult, fetchCount>>
       ELSE /\ fetchResult' = "None"
            /\ fetchPc' = "idle"
            /\ fetchCount' = fetchCount + 1
            /\ sinceRequestEnd' = 0
            /\ time_since_last' = CapTime(time_since_last + duration)
            /\ UNCHANGED <<attempt, backoffs>>
    /\ UNCHANGED <<min_delay, _robots_parser, robotsCheck, robotsWarned,
                   dedupVars, exportVars, scrapeVars, mainVars, otherVars>>

-----------------------------------------------------------------------------
(* The listing search of DirectoryScraper._scrape_list_page (lines 223-384) *)

\* the n elements one layer of the search finds
Items(layer, n) == [i \in 1..n |-> <<layer, i>>]

\* a page, by the number of elements each layer finds in it: the matches of
\* each configured listing selector in order, the numbered headings, the
\* headings followed by firm details, the H2 headings that pass the filter,
\* the "Website:" matches in the text and the firms carved out around them
Page(selectors, numbered, firm, h2, website_matches, new_listings) ==
    [selectors |-> selectors, numbered_headings |-> numbered,
     firm_patterns |-> firm, h2_listings |-> h2,
     website_matches |-> website_matches, new_listings |-> new_listings]

Pages ==
    {Page(<<a, b>>, n, f, h, w[1], w[2]) :
        a \in 0..MaxItems, b \in 0..MaxItems, n \in 0..MaxItems,
        f \in 0..MaxItems, h \in 0..MaxItems,
        w \in {x \in (0..(MaxItems + 1)) \X (0..(MaxItems + 1)) : x[2] <= x[1]}}

SelectorName(k) == IF k = 1 THEN "selector1" ELSE "selector2"

\* lines 227-232: the matches of the first selector that matches
RECURSIVE FirstSelectorListings(_, _)
FirstSelectorListings(soup, k) ==
    IF k > Len(soup.selectors) THEN <<>>
    ELSE IF soup.selectors[k] > 0 THEN Items(SelectorName(k), soup.selectors[k])
    ELSE FirstSelectorListings(soup, k + 1)

\* the search as a fallback chain: headings only when no selector matched
LocateSelectorsFirst(soup) ==
    LET bySelector == FirstSelectorListings(soup, 1)
        byHeading ==
            IF bySelector # <<>> THEN bySelector
            ELSE IF soup.h2_listings > 0 THEN Items("h2", soup.h2_listings)
            ELSE IF soup.numbered_headings > 0
            THEN Items("numbered", soup.numbered_headings)
            ELSE Items("firm", soup.firm_patterns)
    IN  IF soup.new_listings > Len(byHeading)
        THEN Items("website", soup.new_listings)
        ELSE byHeading

\* lines 223-384: `listings` when the parsing loop starts
LocateListings(soup) ==
    LET bySelector == FirstSelectorListings(soup, 1)
        \* lines 263-268
        byHeading ==
            IF soup.numbered_headings > 0
            THEN Items("numbered", soup.numbered_headings)
            ELSE IF soup.firm_patterns > 0
            THEN Items("firm", soup.firm_patterns)
            ELSE bySelector
        \* lines 276-343
        byH2 ==
            IF soup.h2_listings > 0 THEN Items("h2", soup.h2_listings)
            ELSE byHeading
    IN  \* lines 346-384
        IF /\ soup.website_matches > 0
           /\ (byH2 = <<>> \/ soup.website_matches > Len(byH2))
           /\ soup.new_listings > 0
           /\ (soup.new_listings > Len(byH2) \/ byH2 = <<>>)
        THEN Items("website", soup.new_listings)
        ELSE byH2

Locate ==
    /\ ~located
    /\ locateSoup # NoObject
    /\ foundListings' = LocateListings(locateSoup)
    /\ located' = TRUE
    /\ UNCHANGED <<locateSoup, laterVars, parseVars, phoneVars, dedupVars, exportVars,
                   scrapeVars, mainVars, fetchVars>>

-----------------------------------------------------------------------------
(* The name clean-up and the rejections of DirectoryScraper._parse_listing.
   A name is a sequence of symbols: one character each, except the words
   that stand for a run of characters. *)

Bar == "| Architects in"
Run399 == "A x399"

\* len() of the text a symbol stands for
Width(c) ==
    CASE c = Bar -> 15
      [] c = Run399 -> 399
      [] c = "Loading" -> 7
      [] c = "search" -> 6
      [] c = "Architecture Firms in New York" -> 30
      [] OTHER -> 1

RECURSIVE NameLen(_)
NameLen(name) == IF name = <<>> THEN 0 ELSE Width(Head(name)) + NameLen(Tail(name))

IsDigit(c) == c = "1"

IsSpace(c) == c = " "

Least(S) == CHOOSE x \in S : \A y \in S : x <= y

\* the first position from i on that holds no digit (no space); Len + 1 if none
SkipDigits(name, i) ==
    LET J == {j \in i..Len(name) : ~IsDigit(name[j])}
    IN  IF J = {} THEN Len(name) + 1 ELSE Least(J)

SkipSpaces(name, i) ==
    LET J == {j \in i..Len(name) : ~IsSpace(name[j])}
    IN  IF J = {} THEN Len(name) + 1 ELSE Least(J)

KeepOrdinal(name) == name

\* re.sub(r'^\d+\.?\s*', '', name)
StripOrdinal(name) ==
    LET d == SkipDigits(name, 1)
        p == IF d <= Len(name) /\ name[d] = "." THEN d + 1 ELSE d
    IN  IF d = 1 THEN name ELSE SubSeq(name, SkipSpaces(name, p), Len(name))

\* str.strip()
StripSpaces(name) ==
    LET J == {j \in 1..Len(name) : ~IsSpace(name[j])}
    IN  IF J = {} THEN <<>>
        ELSE SubSeq(name, Least(J), CHOOSE x \in J : \A y \in J : y <= x)

\* r'\s*\|\s*Architects?\s+in\s+[^|]*$' matches from position i
SuffixAt(name, i) ==
    LET j == SkipSpaces(name, i)
    IN  /\ j + 1 <= Len(name)
        /\ name[j] = Bar
        /\ IsSpace(name[j + 1])
        /\ \A k \in (j + 2)..Len(name) : name[k] # Bar

\* r':\s*\|\s*Architects?\s+in\s+[^|]*$' matches from position i
ColonSuffixAt(name, i) == name[i] = ":" /\ SuffixAt(name, i + 1)

\* r':\s*$' matches from position i
TrailingColonAt(name, i) ==
    name[i] = ":" /\ \A k \in (i + 1)..Len(name) : IsSpace(name[k])

\* re.sub(pattern, '', name) for a pattern that ends with $: the leftmost
\* match is cut off
CutAtLeast(name, I) == IF I = {} THEN name ELSE SubSeq(name, 1, Least(I) - 1)

RemoveSuffix(name) == CutAtLeast(name, {i \in 1..Len(name) : SuffixAt(name, i)})

RemoveColonSuffix(name) ==
    CutAtLeast(name, {i \in 1..Len(name) : ColonSuffixAt(name, i)})

RemoveTrailingColon(name) ==
    CutAtLeast(name, {i \in 1..Len(name) : TrailingColonAt(name, i)})

RECURSIVE SqueezeSpaces(_)
SqueezeSpaces(name) ==
    IF Len(name) <= 1 THEN name
    ELSE IF IsSpace(name[1]) /\ IsSpace(name[2]) THEN SqueezeSpaces(Tail(name))
    ELSE <<name[1]>> \o SqueezeSpaces(Tail(name))

\* ' '.join(name.split())
CollapseWhitespace(name) == SqueezeSpaces(StripSpaces(name))

\* lines 539-547
NormalizeName(name) ==
    CollapseWhitespace(
        RemoveTrailingColon(
            RemoveColonSuffix(RemoveSuffix(StripSpaces(StripOrdinal(name))))))

\* str.lower() of one symbol
LowerSymbol(c) ==
    CASE c = "A" -> "a"
      [] c = "Loading" -> "loading"
      [] c = "Architecture Firms in New York" -> "architecture firms in new york"
      [] c = Run399 -> "a x399"
      [] c = Bar -> "| architects in"
      [] OTHER -> c

NameLower(name) == [i \in 1..Len(name) |-> LowerSymbol(name[i])]

\* lines 550-562: invalid_patterns, of which r'^loading' and r'^search\s'
\* can match a name of the universe
MatchesInvalidPattern(name_lower) ==
    /\ name_lower # <<>>
    /\ \/ name_lower[1] = "loading"
       \/ /\ Len(name_lower) >= 2
          /\ name_lower[1] = "search"
          /\ IsSpace(name_lower[2])

\* lines 564-565
ObviousNonFirm(name_lower) == name_lower = <<"architecture firms in new york">>

MaxNameChars == 400
MinNameChars == 2

NameTooShortStrict(name) == NameLen(name) <= MinNameChars

\* line 572: `not name or len(name) < 2`
NameTooShort(name) == NameLen(name) < MinNameChars

\* _parse_listing on a listing given by the text its name selectors yield
\* (<<>>: none), the website the listing resolves to and the email its
\* detail page gives (None: the lookup failed or found none)
ParseListing(listing) ==
    LET name == IF listing.name # <<>> THEN NormalizeName(listing.name)
                ELSE listing.name
    IN  IF /\ listing.name # <<>>
           /\ \/ MatchesInvalidPattern(NameLower(name))
              \/ ObviousNonFirm(NameLower(name))
              \/ NameLen(name) > MaxNameChars
        THEN NoDesigner
        ELSE IF NameTooShort(name) THEN NoDesigner
        ELSE Designer(name, listing.website,
                      IF Truthy(listing.website) THEN listing.detailEmail ELSE None)

\* the starts of name texts: ordinals, periods and blanks
Leads == SeqsOf({"1", ".", " "}, 0, MaxLead)

Cores ==
    {<<>>, <<"A">>, <<"A", "b">>, <<"A", " ", " ", "b">>, <<"Loading">>,
     <<"search", " ", "A">>, <<"Architecture Firms in New York">>,
     <<Run399, "b">>, <<Run399, "b", "b">>}

Ends ==
    {<<>>, <<":">>, <<" ", Bar, " ", "N">>, <<":", " ", Bar, " ", "N">>,
     <<":", Bar, " ", "N", " ", Bar, " ", "N">>}

\* _extract_text returns get_text(strip=True): no outer whitespace
NameTexts ==
    {n \in {l \o c \o e : l \in Leads, c \in Cores, e \in Ends} : StripSpaces(n) = n}

\* (website, detail-page email) of a listing
Contacts ==
    {<<None, None>>, <<"", None>>, <<"ACME", None>>, <<"ACME", "A@B.co">>}

ListingSoups ==
    {[name |-> n, website |-> c[1], detailEmail |-> c[2]] :
        n \in NameTexts, c \in Contacts}

Parse ==
    /\ ~parsed
    /\ listing_soup # NoObject
    /\ designer' = ParseListing(listing_soup)
    /\ parsed' = TRUE
    /\ UNCHANGED <<listing_soup, laterVars, locateVars, phoneVars, dedupVars, exportVars,
                   scrapeVars, mainVars, fetchVars>>

-----------------------------------------------------------------------------
(* Designer.__post_init__ and Designer._normalize_phone.  A phone is None
   (NoObject) or a text, spelled out character by character. *)

PhoneText(chars) == [text |-> chars]

IsPhoneDigit(c) == c \in {"0", "1", "2", "3", "4", "5", "6", "7", "8", "9"}

\* re.sub(r'\D', '', phone)
DigitsOf(chars) == SelectSeq(chars, IsPhoneDigit)

\* f"({digits[:3]}) {digits[3:6]}-{digits[6:]}"
FormatTen(digits) ==
    <<"(">> \o SubSeq(digits, 1, 3) \o <<")", " ">> \o SubSeq(digits, 4, 6)
        \o <<"-">> \o SubSeq(digits, 7, Len(digits))

\* f"+1 ({digits[1:4]}) {digits[4:7]}-{digits[7:]}"
FormatEleven(digits) ==
    <<"+", "1", " ", "(">> \o SubSeq(digits, 2, 4) \o <<")", " ">>
        \o SubSeq(digits, 5, 7) \o <<"-">> \o SubSeq(digits, 8, Len(digits))

NormalizePhoneAnyEleven(p) ==
    IF p = NoObject \/ p.text = <<>> THEN NoObject
    ELSE LET digits == DigitsOf(p.text)
         IN  IF Len(digits) = 10 THEN PhoneText(FormatTen(digits))
             ELSE IF Len(digits) = 11 THEN PhoneText(FormatEleven(digits))
             ELSE PhoneText(StripSpaces(p.text))

_normalize_phone(p) ==
    IF p = NoObject \/ p.text = <<>> THEN NoObject
    ELSE LET digits == DigitsOf(p.text)
         IN  IF Len(digits) = 10 THEN PhoneText(FormatTen(digits))
             ELSE IF Len(digits) = 11 /\ digits[1] = "1"
             THEN PhoneText(FormatEleven(digits))
             ELSE PhoneText(StripSpaces(p.text))

\* __post_init__: `if self.phone: self.phone = self._normalize_phone(self.phone)`
PostInitPhone(p) ==
    IF p # NoObject /\ p.text # <<>> THEN _normalize_phone(p) ELSE p

PhoneLeads ==
    {<<>>, <<"1">>, <<"1", "-">>, <<"+", "1", " ">>, <<"2">>, <<" ">>}

PhoneBodies ==
    {<<>>,
     <<"2", "1", "2", "5", "5", "5", "0", "1", "0", "0">>,
     <<"2", "1", "2", "-", "5", "5", "5", "-", "0", "1", "0", "0">>,
     <<"(", "2", "1", "2", ")", " ", "5", "5", "5", "-", "0", "1", "0", "0">>,
     <<"1", "1", "2", ".", "5", "5", "5", ".", "0", "1", "0", "0">>,
     <<"5", "5", "5", "-", "0", "1", "0", "0">>}

PhoneTrails == SeqsOf({" ", "5"}, 0, MaxTrail)

Phones ==
    {NoObject} \cup
        {PhoneText(l \o b \o t) : l \in PhoneLeads, b \in PhoneBodies, t \in PhoneTrails}

\* Designer(phone=phone)
NormalizePhone ==
    /\ phonePc = "input"
    /\ phoneOut' = PostInitPhone(phone)
    /\ phonePc' = "once"
    /\ UNCHANGED <<phone, phoneAgain, laterVars, locateVars, parseVars, dedupVars,
                   exportVars, scrapeVars, mainVars, fetchVars>>

\* Designer(phone=d.phone) for the Designer d just made
NormalizePhoneAgain ==
    /\ phonePc = "once"
    /\ phoneAgain' = PostInitPhone(phoneOut)
    /\ phonePc' = "twice"
    /\ UNCHANGED <<phone, phoneOut, laterVars, locateVars, parseVars, dedupVars,
                   exportVars, scrapeVars, mainVars, fetchVars>>

-----------------------------------------------------------------------------
(* scripts/merge_csvs.py *)

MaxFileRows == 2

LabelSuffixes == {"_results", "_designers", "_asid"}

\* a file of output_dir: the stem of its name as <<head, tail>>, the data
\* rows it holds and whether reading it succeeds
CsvFile(stem, rows, readable) == [stem |-> stem, rows |-> rows, readable |-> readable]

\* source_label: the stem with one of the known suffixes cut off
source_label(stem) == IF stem[2] \in LabelSuffixes THEN <<stem[1]>> ELSE stem

CsvRow(name, website, email) == [name |-> name, website |-> website, email |-> email]

\* load_csv: every field stripped, the label added
load_csv(file, source) ==
    [i \in 1..Len(file.rows) |->
        [name |-> Strip(file.rows[i].name),
         website |-> Strip(file.rows[i].website),
         email |-> Strip(file.rows[i].email),
         source |-> source]]

\* lines 60-66: the master file itself and the excluded labels are skipped
Skipped(file) ==
    \/ file.stem = <<"master", "_results">>
    \/ source_label(file.stem) \in {<<"master">>}

\* lines 58-71: the rows of every file that is not skipped and can be read
RECURSIVE AllRows(_)
AllRows(files) ==
    IF files = <<>> THEN <<>>
    ELSE (IF ~Skipped(Head(files)) /\ Head(files).readable
          THEN load_csv(Head(files), source_label(Head(files).stem))
          ELSE <<>>) \o AllRows(Tail(files))

MergeKeyExact(row) == Strip(row.name)

\* line 78
MergeKey(row) == Lower(Strip(row.name))

\* lines 75-84
RECURSIVE MergeDedupe(_, _, _)
MergeDedupe(rows, seen, unique) ==
    IF rows = <<>> THEN unique
    ELSE LET key == MergeKey(Head(rows))
         IN  IF key # "" /\ key \notin seen
             THEN MergeDedupe(Tail(rows), seen \cup {key}, Append(unique, Head(rows)))
             ELSE IF key = ""
             THEN MergeDedupe(Tail(rows), seen, Append(unique, Head(rows)))
             ELSE MergeDedupe(Tail(rows), seen, unique)

\* merge(output_dir, master_path, dedupe, exclude=['master'])
Merge ==
    /\ mergePc = "input"
    /\ master' = IF dedupe THEN MergeDedupe(AllRows(mergeFiles), {}, <<>>)
                 ELSE AllRows(mergeFiles)
    /\ mergePc' = "done"
    /\ UNCHANGED <<mergeFiles, dedupe, sessionVars, delayVars, repairVars,
                   yieldVars, locateVars, parseVars, phoneVars,
                   dedupVars, exportVars, scrapeVars, mainVars, fetchVars>>

CsvRows ==
    {CsvRow("Acme", "ACME", ""), CsvRow("acme", "", ""),
     CsvRow(" Acme", "", "A@B.co"), CsvRow("Beta", "", ""),
     CsvRow("", "ACME", "")}

FileContents == SeqsOf(CsvRows, 0, MaxFileRows)

-----------------------------------------------------------------------------
(* scripts/clean_contacts_rethinkingthefuture.py; cells are spelled out
   character by character *)

MaxPrefixDigits == 8

IsLetter(c) == c \in {"a", "b", "c", "o"}

\* [A-Za-z0-9._%+-]
IsLocalChar(c) == IsLetter(c) \/ IsPhoneDigit(c) \/ c \in {".", "_", "%", "+", "-"}

\* [A-Za-z0-9.-]
IsDomainChar(c) == IsLetter(c) \/ IsPhoneDigit(c) \/ c \in {".", "-"}

Greatest(S) == CHOOSE x \in S : \A y \in S : y <= x

\* the characters that occur in a cell
CharsOf(chars) == {chars[j] : j \in 1..Len(chars)}

\* the first position from i on whose character is outside the class (a set
\* of characters); Len + 1 if none
RunEnd(chars, i, class) ==
    LET J == {j \in i..Len(chars) : chars[j] \notin class}
    IN  IF J = {} THEN Len(chars) + 1 ELSE Least(J)

\* EMAIL_RE matched from position i: the position of the last character of
\* the match, 0 when there is none.  The local part runs up to the '@'; the
\* greedy domain gives back to the last dot that two letters follow; the
\* top-level part takes every letter after that dot.
EmailEndAt(chars, i) ==
    IF ~IsLetter(chars[i]) THEN 0
    ELSE LET at == RunEnd(chars, i + 1, {c \in CharsOf(chars) : IsLocalChar(c)})
         IN  IF at > Len(chars) \/ chars[at] # "@" THEN 0
             ELSE LET e == RunEnd(chars, at + 1,
                                  {c \in CharsOf(chars) : IsDomainChar(c)}) - 1
                      K == {k \in (at + 2)..(e - 2) :
                              /\ chars[k] = "."
                              /\ IsLetter(chars[k + 1])
                              /\ IsLetter(chars[k + 2])}
                  IN  IF K = {} THEN 0
                      ELSE RunEnd(chars, Greatest(K) + 1,
                                  {c \in CharsOf(chars) : IsLetter(c)}) - 1

\* EMAIL_RE.search(raw): <<start, end>> of the leftmost match, <<0, 0>> if none
EmailSearch(chars) ==
    LET I == {i \in 1..Len(chars) : EmailEndAt(chars, i) > 0}
    IN  IF I = {} THEN <<0, 0>> ELSE <<Least(I), EmailEndAt(chars, Least(I))>>

IsPhonePrefixTen(digits_only) == Len(digits_only) = 10

\* line 43
IsPhonePrefix(digits_only) == Len(digits_only) >= 7

\* line 41
IsZipPrefix(digits_only) == Len(digits_only) = 5

\* clean_contact_cell: (phone, zip_code, email)
clean_contact_cell(value) ==
    LET raw == StripSpaces(value)
        m == EmailSearch(raw)
    IN  IF raw = <<>> THEN <<<<>>, <<>>, <<>>>>
        ELSE IF m[1] = 0 THEN <<<<>>, <<>>, raw>>
        ELSE LET email == SubSeq(raw, m[1], m[2])
                 prefix == StripSpaces(SubSeq(raw, 1, m[1] - 1))
                 digits_only == DigitsOf(prefix)
             IN  IF prefix = <<>> THEN <<<<>>, <<>>, email>>
                 ELSE IF IsZipPrefix(digits_only) THEN <<<<>>, prefix, email>>
                 ELSE IF IsPhonePrefix(digits_only) THEN <<prefix, <<>>, email>>
                 ELSE <<<<>>, <<>>, email>>

ContactRow(email, phone_cell, zip_code) ==
    [email |-> email, phone |-> phone_cell, zip_code |-> zip_code]

\* clean_row
clean_row(row) ==
    IF StripSpaces(row.email) = <<>> THEN row
    ELSE LET c == clean_contact_cell(StripSpaces(row.email))
         IN  [email |-> c[3],
              phone |-> IF c[1] # <<>> /\ StripSpaces(row.phone) = <<>>
                        THEN c[1] ELSE row.phone,
              zip_code |-> IF c[2] # <<>> /\ StripSpaces(row.zip_code) = <<>>
                           THEN c[2] ELSE row.zip_code]

\* n digits, plain
PlainDigits(n) == [i \in 1..n |-> IF i % 2 = 1 THEN "2" ELSE "5"]

\* n digits with a dot after the third, as in 212.4770287
DottedDigits(n) ==
    IF n <= 3 THEN PlainDigits(n)
    ELSE SubSeq(PlainDigits(n), 1, 3) \o <<".">> \o SubSeq(PlainDigits(n), 4, n)

DigitPrefixes ==
    {PlainDigits(n) : n \in 0..MaxPrefixDigits}
        \cup {DottedDigits(n) : n \in 4..MaxPrefixDigits}

EmailTexts ==
    {<<>>,
     <<"a", "@", "b", ".", "c", "o">>,
     <<"a", ".", "2", "@", "b", "-", "c", ".", "c", "o", ".", "a", "b">>,
     <<"a", "@", "b", ".", "c">>,
     <<"b", "o", "b">>}

CellTails == {<<>>, <<" ">>, <<".", "2">>, <<" ", "c", "@", "b", ".", "c", "o">>}

ContactCells ==
    {pad \o p \o gap \o e \o t :
        pad \in {<<>>, <<" ">>}, p \in DigitPrefixes, gap \in {<<>>, <<" ">>},
        e \in EmailTexts, t \in CellTails}

ContactRows ==
    {ContactRow(c, ph, z) :
        c \in ContactCells,
        ph \in {<<>>, <<" ">>, <<"5", "5", "5">>},
        z \in {<<>>, <<"1", "1", "2", "0", "1">>}}

\* run_clean: clean_row on a row of the file
CleanRow ==
    /\ repairPc = "input"
    /\ cleaned' = clean_row(contactRow)
    /\ repairPc' = "once"
    /\ UNCHANGED <<contactRow, cleanedAgain, yieldVars, mergeVars, sessionVars,
                   delayVars, locateVars, parseVars, phoneVars, dedupVars,
                   exportVars, scrapeVars, mainVars, fetchVars>>

\* a second run_clean over the file it wrote
CleanRowAgain ==
    /\ repairPc = "once"
    /\ cleanedAgain' = clean_row(cleaned)
    /\ repairPc' = "twice"
    /\ UNCHANGED <<contactRow, cleaned, yieldVars, mergeVars, sessionVars,
                   delayVars, locateVars, parseVars, phoneVars, dedupVars,
                   exportVars, scrapeVars, mainVars, fetchVars>>

-----------------------------------------------------------------------------
(* Specifications *)

LocateIdle ==
    /\ locateSoup = NoObject
    /\ foundListings = <<>>
    /\ located = FALSE

ParseIdle ==
    /\ listing_soup = NoObject
    /\ designer = NoObject
    /\ parsed = FALSE

PhoneIdle ==
    /\ phone = NoObject
    /\ phoneOut = NoObject
    /\ phoneAgain = NoObject
    /\ phonePc = "input"

YieldIdle == siteYield = <<>>

MergeIdle ==
    /\ mergeFiles = <<>>
    /\ dedupe = TRUE
    /\ master = <<>>
    /\ mergePc = "idle"

SessionIdle ==
    /\ requires_js = FALSE
    /\ selenium_helper = "None"
    /\ driver = "None"
    /\ rendered = NoObject

DelayIdle ==
    /\ delay_between_pages = 0
    /\ delays = <<>>

RepairIdle ==
    /\ contactRow = NoObject
    /\ cleaned = NoObject
    /\ cleanedAgain = NoObject
    /\ repairPc = "idle"

LaterIdle == YieldIdle /\ MergeIdle /\ SessionIdle /\ DelayIdle /\ RepairIdle

OtherIdle == LocateIdle /\ ParseIdle /\ PhoneIdle /\ LaterIdle

\* a scraper that has fetched nothing: RateLimiter.__init__ sets
\* last_request_time to 0.0, long before now
FetchIdle ==
    /\ min_delay = Seconds(1)
    /\ time_since_last = TimeCap
    /\ sinceRequestEnd = TimeCap
    /\ requestGap = -1
    /\ hadRequest = FALSE
    /\ _robots_parser = "None"
    /\ robotsCheck = ""
    /\ robotsWarned = FALSE
    /\ fetchPc = "idle"
    /\ attempt = 0
    /\ outcomes = <<>>
    /\ backoffs = <<>>
    /\ fetchResult = ""
    /\ fetchCount = 0

MainIdle ==
    /\ sources = <<>>
    /\ single_url = None
    /\ mainPc = "idle"
    /\ sources_to_scrape = <<>>
    /\ site_index = 1
    /\ all_designers = <<>>
    /\ scrapeCalled = <<>>
    /\ fetchAttempted = {}
    /\ scrapeErrors = <<>>
    /\ exportCalls = <<>>

ScrapeIdle ==
    /\ config = Profile(FALSE, <<>>, FALSE, 1, 1, TRUE, FALSE)
    /\ max_results = 0
    /\ pc = "idle"
    /\ page_num = 1
    /\ designers = <<>>
    /\ page_results = <<>>
    /\ requested = <<>>
    /\ lastDoc = NoSoup

DedupIdle ==
    /\ dedupIn = <<>>
    /\ dedupOut = <<>>
    /\ dedupPhase = "idle"

ExportIdle ==
    /\ fileExists = FALSE
    /\ fileRows = <<>>
    /\ lastBatch = <<>>
    /\ loadFailed = FALSE
    /\ allAppendDedup = TRUE

InitDedup ==
    /\ dedupIn \in SeqsOf(Designers, 0, MaxLen)
    /\ dedupOut = <<>>
    /\ dedupPhase = "input"
    /\ ExportIdle
    /\ ScrapeIdle
    /\ MainIdle
    /\ FetchIdle
    /\ OtherIdle

NextDedup == Deduplicate \/ DeduplicateAgain

SpecDedup == InitDedup /\ [][NextDedup]_vars

\* the output file is absent, or holds a header and internally deduplicated rows
InitExport ==
    /\ DedupIdle
    /\ ScrapeIdle
    /\ MainIdle
    /\ FetchIdle
    /\ OtherIdle
    /\ fileExists \in BOOLEAN
    /\ fileRows \in {RowsOf(_deduplicate(b)) : b \in SeqsOf(ExportDesigners, 0, 1)}
    /\ fileExists = FALSE => fileRows = <<>>
    /\ lastBatch = <<>>
    /\ loadFailed = FALSE
    /\ allAppendDedup = TRUE

ExportAny ==
    \E b \in SeqsOf(ExportDesigners, 1, MaxBatch), a \in BOOLEAN, dd \in BOOLEAN :
        \E n \in 0..Len(fileRows) : Export(b, a, dd, n) /\ UNCHANGED lastBatch

NextExport == ExportAny \/ ExportNothing

SpecExport == InitExport /\ [][NextExport]_vars

\* repeated runs over a source: each run exports with append and dedup, and
\* the batch of the latest run is remembered
ExportRun ==
    \E b \in SeqsOf(ExportDesigners, 1, MaxBatch) :
        \E n \in 0..Len(fileRows) : Export(b, TRUE, TRUE, n) /\ lastBatch' = b

NextRerun == ExportRun \/ ExportNothing

SpecRerun == InitExport /\ [][NextRerun]_vars

\* scrape(search_query, max_results) called on a fresh DirectoryScraper(config)
InitScrape ==
    /\ DedupIdle
    /\ ExportIdle
    /\ MainIdle
    /\ FetchIdle
    /\ LocateIdle
    /\ ParseIdle
    /\ PhoneIdle
    /\ YieldIdle
    /\ MergeIdle
    /\ RepairIdle
    /\ requires_js \in BOOLEAN
    /\ selenium_helper = "None"
    /\ driver = "None"
    /\ rendered = NoObject
    /\ delay_between_pages \in PageDelays
    /\ delays = <<>>
    /\ config \in Profiles
    /\ max_results \in 0..MaxCap
    /\ pc = "start"
    /\ page_num = 1
    /\ designers = <<>>
    /\ page_results = <<>>
    /\ requested = <<>>
    /\ lastDoc = NoSoup

NextScrape ==
    \/ ScrapeStart
    \/ \E out \in PageOutcomes(ListDocs) : RangePage(out)
    \/ RangeEnd
    \/ \E out \in PageOutcomes(ListDocs) : SinglePage(out)
    \/ \E soup \in FetchOutcomes(SearchDocs) : SearchPage(soup)

SpecScrape == InitScrape /\ [][NextScrape]_vars

\* the pages a search can be answered with, among them two different pages
\* whose listings give no record and that link to a next page
EndlessDocs ==
    SearchDocs \cup {Doc(<<LNoName, LNoName>>, {NextSelectors[1]})}

\* a search run with a result cap of at least 1
InitSearch ==
    /\ InitScrape
    /\ config.search_url_template
    /\ ~config.list_url
    /\ max_results >= 1

SearchLoop ==
    \/ \E soup \in FetchOutcomes(EndlessDocs) : SearchPage(soup)
    \/ \E soup \in FetchOutcomes(EndlessDocs) : SearchPageBeyond(soup)

NextSearch == ScrapeStart \/ SearchLoop

\* every fetch returns and the sequential run goes on to its next statement
SpecSearch ==
    /\ InitSearch
    /\ [][NextSearch]_vars
    /\ WF_vars(ScrapeStart)
    /\ WF_vars(SearchLoop)

\* a scrape that a KeyboardInterrupt can end at any of its blocking waits
NextInterrupt ==
    \/ NextScrape
    \/ KeyboardInterrupt

SpecInterrupt == InitScrape /\ [][NextInterrupt]_vars

\* the fetches of one scraper
InitFetch ==
    /\ DedupIdle
    /\ ExportIdle
    /\ ScrapeIdle
    /\ MainIdle
    /\ OtherIdle
    /\ min_delay \in RateLimits
    /\ time_since_last = TimeCap
    /\ sinceRequestEnd = TimeCap
    /\ requestGap = -1
    /\ hadRequest = FALSE
    /\ _robots_parser = "None"
    /\ robotsCheck = ""
    /\ robotsWarned = FALSE
    /\ fetchPc = "idle"
    /\ attempt = 0
    /\ outcomes = <<>>
    /\ backoffs = <<>>
    /\ fetchResult = ""
    /\ fetchCount = 0

NextFetch ==
    \/ \E idle \in 0..MaxIdle, readOk \in BOOLEAN, can_fetch \in BOOLEAN,
          jitter \in JitterChoices :
            FetchBegin(idle, readOk, can_fetch, jitter)
    \/ \E ok \in BOOLEAN, duration \in 0..MaxDuration : FetchAttempt(ok, duration)

SpecFetch == InitFetch /\ [][NextFetch]_vars

\* the listing search of _scrape_list_page on one page
InitLocate ==
    /\ DedupIdle
    /\ ExportIdle
    /\ ScrapeIdle
    /\ MainIdle
    /\ FetchIdle
    /\ ParseIdle
    /\ PhoneIdle
    /\ LaterIdle
    /\ locateSoup \in Pages
    /\ foundListings = <<>>
    /\ located = FALSE

NextLocate == Locate

SpecLocate == InitLocate /\ [][NextLocate]_vars

\* _parse_listing on one listing
InitParse ==
    /\ DedupIdle
    /\ ExportIdle
    /\ ScrapeIdle
    /\ MainIdle
    /\ FetchIdle
    /\ LocateIdle
    /\ PhoneIdle
    /\ LaterIdle
    /\ listing_soup \in ListingSoups
    /\ designer = NoObject
    /\ parsed = FALSE

NextParse == Parse

SpecParse == InitParse /\ [][NextParse]_vars

\* merge over an output directory that holds two result files and the
\* master file of an earlier merge
InitMerge ==
    /\ DedupIdle
    /\ ExportIdle
    /\ ScrapeIdle
    /\ MainIdle
    /\ FetchIdle
    /\ LocateIdle
    /\ ParseIdle
    /\ PhoneIdle
    /\ YieldIdle
    /\ SessionIdle
    /\ DelayIdle
    /\ RepairIdle
    /\ mergeFiles \in
           {<<CsvFile(<<"asid", "_results">>, a, TRUE),
              CsvFile(<<"master", "_results">>, m, TRUE),
              CsvFile(<<"yelp", "_page1">>, y, r)>> :
                a \in FileContents, y \in FileContents, r \in BOOLEAN,
                m \in {<<>>, <<CsvRow("Beta", "", "")>>}}
    /\ dedupe \in BOOLEAN
    /\ master = <<>>
    /\ mergePc = "input"

NextMerge == Merge

SpecMerge == InitMerge /\ [][NextMerge]_vars

\* rows of the results file handed to the contact clean-up
InitRepair ==
    /\ DedupIdle
    /\ ExportIdle
    /\ ScrapeIdle
    /\ MainIdle
    /\ FetchIdle
    /\ LocateIdle
    /\ ParseIdle
    /\ PhoneIdle
    /\ YieldIdle
    /\ MergeIdle
    /\ SessionIdle
    /\ DelayIdle
    /\ contactRow \in ContactRows
    /\ cleaned = NoObject
    /\ cleanedAgain = NoObject
    /\ repairPc = "input"

NextRepair == CleanRow \/ CleanRowAgain

SpecRepair == InitRepair /\ [][NextRepair]_vars

\* the phone of a Designer under construction
InitPhone ==
    /\ DedupIdle
    /\ ExportIdle
    /\ ScrapeIdle
    /\ MainIdle
    /\ FetchIdle
    /\ LocateIdle
    /\ ParseIdle
    /\ LaterIdle
    /\ phone \in Phones
    /\ phoneOut = NoObject
    /\ phoneAgain = NoObject
    /\ phonePc = "input"

NextPhone == NormalizePhone \/ NormalizePhoneAgain

SpecPhone == InitPhone /\ [][NextPhone]_vars

\* scrape_all_sources(sources, search_query, max_results, output_file,
\* single_url) as main calls it, then main's export
InitMain ==
    /\ DedupIdle
    /\ ExportIdle
    /\ FetchIdle
    /\ OtherIdle
    /\ config = Profile(FALSE, <<>>, FALSE, 1, 1, TRUE, FALSE)
    /\ max_results \in 0..MaxCap
    /\ pc = "idle"
    /\ page_num = 1
    /\ designers = <<>>
    /\ page_results = <<>>
    /\ requested = <<>>
    /\ lastDoc = NoSoup
    /\ sources \in SeqsOf(SiteIds \cup {UnknownSite}, 0, MaxSources)
    /\ single_url \in SingleUrls
    /\ mainPc = "start"
    /\ sources_to_scrape = <<>>
    /\ site_index = 1
    /\ all_designers = <<>>
    /\ scrapeCalled = <<>>
    /\ fetchAttempted = {}
    /\ scrapeErrors = <<>>
    /\ exportCalls = <<>>

NextMain ==
    \/ MainStart
    \/ \E ret \in ScrapeReturns : SiteStep(ret)
    \/ MainExport

SpecMain == InitMain /\ [][NextMain]_vars

-----------------------------------------------------------------------------
(* Identity keys the claims speak of *)

\* the key of section 3 of the specification: the name stands in when a
\* record has neither website nor email
SpecKey(d) == <<Lower(d.name), Lower(Or(d.website, Or(d.email, d.name)))>>

\* the key two records are compared by: nothing stands in
IdentityKey(d) == <<Lower(d.name), Lower(Or(d.website, Or(d.email, "")))>>

\* the indices of R that hold the first record of their identity
FirstIndices(R) ==
    {i \in 1..Len(R) : \A j \in 1..(i - 1) : IdentityKey(R[j]) # IdentityKey(R[i])}

RECURSIVE TakeIndices(_, _, _)
TakeIndices(R, keep, i) ==
    IF i > Len(R) THEN <<>>
    ELSE (IF i \in keep THEN <<R[i]>> ELSE <<>>) \o TakeIndices(R, keep, i + 1)

FirstOfEachIdentity(R) == TakeIndices(R, FirstIndices(R), 1)

NoTwoRowsShareKey(rows) ==
    \A i, j \in 1..Len(rows) :
        i < j => SpecKey(FromRow(rows[i])) # SpecKey(FromRow(rows[j]))

-----------------------------------------------------------------------------
(* Claims *)

\* C1: with dedup enabled, exporting in append mode the record set that was
\* exported to the file by the run before (the file read back in full) leaves
\* the file with the same number of rows.
C1_RerunKeepsRowCount ==
    [][(lastBatch # <<>> /\ Export(lastBatch, TRUE, TRUE, Len(fileRows))
            /\ lastBatch' = lastBatch)
        => Len(fileRows') = Len(fileRows)]_vars

\* C2: starting from an absent or internally deduplicated file, after any
\* sequence of append-mode exports with dedup enabled (every read-back
\* complete) no two rows of the file have the same identity key.
C2_NoDuplicateRows ==
    (allAppendDedup /\ ~loadFailed) => NoTwoRowsShareKey(fileRows)

C4_SameEntityIffSpecKey ==
    (dedupPhase = "once" /\ Len(dedupIn) = 2)
        => ((Len(dedupOut) = 1) <=> (SpecKey(dedupIn[1]) = SpecKey(dedupIn[2])))

\* C4 amended: two records are one entity for the Deduplicator iff their
\* lowercased names agree and their lowercased website-or-email agree, a
\* record with neither having the empty secondary identifier.
C4_SameEntityIffIdentityKey ==
    (dedupPhase = "once" /\ Len(dedupIn) = 2)
        => ((Len(dedupOut) = 1)
                <=> (IdentityKey(dedupIn[1]) = IdentityKey(dedupIn[2])))

\* C4 witness: a record without website or email next to one whose website
\* spells its name; both are kept
C4_Witness ==
    /\ dedupPhase = "once"
    /\ Len(dedupIn) = 2
    /\ SpecKey(dedupIn[1]) = SpecKey(dedupIn[2])
    /\ Len(dedupOut) = 2

-----------------------------------------------------------------------------
(* Pagination claims *)

\* the records the latest fetched page yielded, before the block-page check
Found(soup, max) == _scrape_list_page(soup, max)

NameHasPhrase(d) ==
    \E ph \in block_phrases : PhraseIn(ph, Lower(Strip(d.name)))

\* how many records have a name that contains a block-page phrase
RecordsWithPhrase(ds) == Cardinality({i \in 1..Len(ds) : NameHasPhrase(ds[i])})

\* how many of the block-page phrases occur in some record's name
PhrasesPresent(ds) ==
    Cardinality({ph \in block_phrases :
                    \E i \in 1..Len(ds) : PhraseIn(ph, Lower(Strip(ds[i].name)))})

LastBatchOf(results) == results[Len(results)]

IsPrefix(a, b) == Len(a) <= Len(b) /\ a = SubSeq(b, 1, Len(a))

\* C5: with a maximum M >= 1 a page is fetched only while the running total
\* is below M, and the list a finished run returns has at most M entries,
\* in every strategy.
C5_ResultCap ==
    [][/\ (requested' # requested /\ max_results >= 1)
            => Len(designers) < max_results
       /\ (pc' = "done" /\ max_results >= 1) => Len(designers') <= max_results]_vars

\* C5 witness: a paginated run whose second page took the running total past
\* the maximum, so that the combined list was cut to it
C5_Witness ==
    /\ pc = "done"
    /\ max_results >= 1
    /\ Len(designers) = max_results
    /\ Len(page_results) = 2
    /\ Len(page_results[1].designers) + Len(page_results[2].designers)
           > max_results

\* C6 as stated: a page with index >= 2 that yields exactly 3 records of
\* which at least 2 have a name containing a block-page phrase is recorded
\* with no records, adds nothing to the combined list and the run goes on.
C6_DiscardByRecordCount ==
    [][(/\ page_results' # page_results
        /\ page_num >= 2
        /\ Len(Found(lastDoc', max_results)) = 3
        /\ RecordsWithPhrase(Found(lastDoc', max_results)) >= 2)
        => (/\ LastBatchOf(page_results').designers = <<>>
            /\ designers' = designers
            /\ pc' = "range")]_vars

\* C6 amended: a page with index >= 2 that yields exactly 3 records whose
\* names between them contain at least 2 of the 3 block-page phrases is
\* recorded with no records, adds nothing to the combined list and the run
\* goes on.
C6_DiscardByPhraseCount ==
    [][(/\ page_results' # page_results
        /\ page_num >= 2
        /\ Len(Found(lastDoc', max_results)) = 3
        /\ PhrasesPresent(Found(lastDoc', max_results)) >= 2)
        => (/\ LastBatchOf(page_results').designers = <<>>
            /\ designers' = designers
            /\ pc' = "range")]_vars

\* C6 witness: page 2 yielded 3 records holding exactly 2 of the phrases and
\* was recorded empty
C6_Witness ==
    /\ page_results # <<>>
    /\ lastDoc # NoSoup
    /\ LastBatchOf(page_results).page_num = 2
    /\ LastBatchOf(page_results).designers = <<>>
    /\ Len(Found(lastDoc, max_results)) = 3
    /\ PhrasesPresent(Found(lastDoc, max_results)) = 2

\* C7: a page that yields exactly 3 records whose names between them contain
\* 2 of the 3 block-page phrases gets an empty batch when its index is > 1,
\* and keeps its records when its index is 1.
C7_BlockPageOnlyAfterFirst ==
    [][(/\ page_results' # page_results
        /\ Len(Found(lastDoc', max_results)) = 3
        /\ PhrasesPresent(Found(lastDoc', max_results)) >= 2)
        => (LastBatchOf(page_results').designers =
                IF page_num > 1 THEN <<>> ELSE Found(lastDoc', max_results))]_vars

\* C7 witness: page 1 looked like a block page and was kept, page 2 looked
\* like one and was emptied
C7_Witness ==
    /\ Len(page_results) = 2
    /\ page_results[1].page_num = 1
    /\ Len(page_results[1].designers) = 3
    /\ PhrasesPresent(page_results[1].designers) >= 2
    /\ page_results[2].page_num = 2
    /\ page_results[2].designers = <<>>
    /\ lastDoc # NoSoup
    /\ Len(Found(lastDoc, max_results)) = 3
    /\ PhrasesPresent(Found(lastDoc, max_results)) >= 2

C9_ExplicitUrlList ==
    (pc = "done" /\ config.list_urls # <<>>)
        => (/\ IsPrefix(requested, config.list_urls)
            /\ \/ requested = config.list_urls
               \/ (max_results >= 1 /\ Len(designers) >= max_results))

-----------------------------------------------------------------------------
(* Orchestration claims *)

\* C10: when a run of scrape_all_sources that accepted its arguments is
\* over, every selected source that is configured (each has a URL) had a
\* page fetch attempted by its pagination driver.
C10_EverySiteFetched ==
    mainPc = "done"
        => \A i \in 1..Len(sources_to_scrape) :
               sources_to_scrape[i] \in SiteIds
                   => sources_to_scrape[i] \in fetchAttempted

\* C11: a run given a non-blank single-URL override and exactly one
\* configured source ends with that source's scrape having requested the
\* override URL; a run given the override with any other number of sources
\* scrapes nothing.
C11_OverrideFetched ==
    (mainPc = "done" /\ UrlGiven(single_url))
        => IF Len(sources) = 1
           THEN sources[1] \in SiteIds
                    => /\ sources[1] \in fetchAttempted
                       /\ \E i \in 1..Len(requested) : requested[i] = single_url
           ELSE scrapeCalled = <<>>

\* C12: when a keyboard interrupt has ended a scrape that had collected
\* records, those records have been written to the output: an export call
\* carried them, or the output file holds their rows.
C12_InterruptFlushesRecords ==
    (pc = "interrupted" /\ designers # <<>>)
        => \/ \E i \in 1..Len(exportCalls) : exportCalls[i].designers = designers
           \/ /\ fileExists
              /\ \A i \in 1..Len(designers) :
                     \E j \in 1..Len(fileRows) : fileRows[j] = to_dict(designers[i])

IsConfigured(source_name) == source_name \in SiteIds

\* C13: at every step of a run the scrapes called so far are exactly the
\* configured sources among those the loop has passed, once each and in the
\* given order, whether or not an earlier source was unknown or faulted; and
\* no step removes or reorders records already gathered.
C13_EverySiteAttemptedOnce ==
    [][/\ scrapeCalled' =
              SelectSeq(SubSeq(sources_to_scrape', 1, site_index' - 1), IsConfigured)
       /\ site_index' <= Len(sources_to_scrape') + 1
       /\ mainPc' = "done" /\ sources_to_scrape' # <<>>
              => site_index' = Len(sources_to_scrape') + 1
       /\ IsPrefix(all_designers, all_designers')]_vars

\* C13 witness: a finished run in which a source was attempted after an
\* earlier one had faulted
C13_Witness ==
    /\ mainPc = "done"
    /\ Len(scrapeErrors) >= 2
    /\ Len(scrapeCalled) = Len(sources_to_scrape)

-----------------------------------------------------------------------------
(* Fetch claims *)

\* the back-off waits after the first k failed attempts: 2^0, 2^1, ...
ExpectedBackoffs(k) == [i \in 1..k |-> 2 ^ (i - 1)]

\* C14: a fetch issues at most 3 requests and none after a success; after
\* each failed attempt but the third it waits 2^attempt seconds; it returns
\* the document of the first success, and None (no exception) after three
\* failures.
C14_FetchRetries ==
    /\ Len(outcomes) <= 3
    /\ \A i \in 1..(Len(outcomes) - 1) : outcomes[i] = "failed"
    /\ fetchPc = "attempt"
           => /\ Len(outcomes) < 3
              /\ \A i \in 1..Len(outcomes) : outcomes[i] = "failed"
              /\ backoffs = ExpectedBackoffs(Len(outcomes))
    /\ (fetchPc = "idle" /\ outcomes # <<>>)
           => IF outcomes[Len(outcomes)] = "ok"
              THEN /\ fetchResult = "soup"
                   /\ backoffs = ExpectedBackoffs(Len(outcomes) - 1)
              ELSE /\ Len(outcomes) = 3
                   /\ fetchResult = "None"
                   /\ backoffs = ExpectedBackoffs(2)

\* C14 witness: a fetch that failed three times, waited 1 s and 2 s, and
\* returned None
C14_Witness ==
    /\ fetchPc = "idle"
    /\ outcomes = <<"failed", "failed", "failed">>
    /\ backoffs = <<1, 2>>
    /\ fetchResult = "None"

\* C15: every request of a scraper but its first is issued at least the
\* minimum delay after the end of the request before it.
C15_RequestsSpacedByMinDelay ==
    requestGap # -1 => requestGap >= min_delay

\* C16: every call of the fetch goes on to issue its request, whatever the
\* robots check answered, and the warning is logged exactly on a disallow.
C16_RobotsAdvisory ==
    [][fetchPc = "idle"
           => /\ fetchPc' = "attempt"
              /\ robotsCheck' \in {"allowed", "disallowed", "unavailable"}
              /\ robotsWarned' <=> (robotsCheck' = "disallowed")]_vars

\* C16 witness: a fetch whose robots check disallowed the URL got its
\* document, after one whose robots.txt could not be read
C16_Witness ==
    /\ fetchPc = "idle"
    /\ _robots_parser = "unread"
    /\ fetchCount = 2
    /\ robotsCheck = "disallowed"
    /\ robotsWarned
    /\ outcomes = <<"ok">>
    /\ fetchResult = "soup"

-----------------------------------------------------------------------------
(* Listing search claims *)

\* the sets of the single layers of a page
LayerSets(soup) ==
    {Items(SelectorName(k), soup.selectors[k]) : k \in 1..Len(soup.selectors)}
        \cup {Items("numbered", soup.numbered_headings),
              Items("firm", soup.firm_patterns),
              Items("h2", soup.h2_listings),
              Items("website", soup.new_listings), <<>>}

\* the heading layer that has candidates, H2 before numbered before
\* firm-pattern headings; <<>> when none has
HeadingChoice(soup) ==
    IF soup.h2_listings > 0 THEN Items("h2", soup.h2_listings)
    ELSE IF soup.numbered_headings > 0
    THEN Items("numbered", soup.numbered_headings)
    ELSE Items("firm", soup.firm_patterns)

\* C17 as stated: when some listing selector matches, the listings are the
\* matches of the first such selector, or the text-pattern firms when these
\* are strictly more; and the listings are always one layer's set.
C17_SelectorsBeforeHeadings ==
    located
        => LET first == FirstSelectorListings(locateSoup, 1)
           IN  /\ foundListings \in LayerSets(locateSoup)
               /\ first # <<>>
                      => \/ foundListings = first
                         \/ /\ foundListings = Items("website", locateSoup.new_listings)
                            /\ locateSoup.new_listings > Len(first)

\* C17 amended: the listings are the candidates of the first heading layer
\* that has any (H2, then numbered, then firm-pattern headings), the matches
\* of the first matching selector only when no heading layer has candidates,
\* and in either case the text-pattern firms instead when these are strictly
\* more; the listings are always one layer's set.
C17_HeadingsBeforeSelectors ==
    located
        => LET heading == HeadingChoice(locateSoup)
               layer == IF heading # <<>> THEN heading
                        ELSE FirstSelectorListings(locateSoup, 1)
           IN  /\ foundListings \in LayerSets(locateSoup)
               /\ foundListings =
                      IF locateSoup.new_listings > Len(layer)
                      THEN Items("website", locateSoup.new_listings)
                      ELSE layer

\* C17 witness: a selector matched and a numbered heading was found; the
\* listings are the numbered headings
C17_Witness ==
    /\ located
    /\ FirstSelectorListings(locateSoup, 1) # <<>>
    /\ locateSoup.numbered_headings > 0
    /\ foundListings = Items("numbered", locateSoup.numbered_headings)

-----------------------------------------------------------------------------
(* Record extraction claims *)

\* a name of the denylist of navigation and error phrases
Denylisted(name) ==
    MatchesInvalidPattern(NameLower(name)) \/ ObviousNonFirm(NameLower(name))

HasLeadingOrdinal(name) ==
    LET d == SkipDigits(name, 1)
    IN  d > 1 /\ d <= Len(name) /\ name[d] = "."

\* the name without its ordinal marker, whitespace collapsed
WithoutOrdinal(name) ==
    CollapseWhitespace(SubSeq(name, SkipDigits(name, 1) + 1, Len(name)))

\* the clean-up of the end of a name: outer blanks, the "| Architects in ..."
\* suffixes and a trailing colon removed, whitespace collapsed
WithoutSuffixes(name) ==
    CollapseWhitespace(
        RemoveTrailingColon(RemoveColonSuffix(RemoveSuffix(StripSpaces(name)))))

\* C19 as stated: the name of the Record of a listing whose name text starts
\* with an ordinal marker is that text with the marker removed and
\* whitespace collapsed, and no Record's name starts with an ordinal marker.
C19_OrdinalRemoved ==
    (parsed /\ designer # NoDesigner)
        => /\ HasLeadingOrdinal(listing_soup.name)
                  => designer.name = WithoutOrdinal(listing_soup.name)
           /\ ~HasLeadingOrdinal(designer.name)

\* C19 amended: the name of the Record of a listing whose name text starts
\* with an ordinal marker is that text with the one marker and the known
\* trailing suffixes removed and whitespace collapsed, and a Record's name
\* starts with an ordinal marker only when the name text carried another
\* marker right after its leading number.
C19_OneOrdinalRemoved ==
    (parsed /\ designer # NoDesigner)
        => /\ HasLeadingOrdinal(listing_soup.name)
                  => designer.name =
                         WithoutSuffixes(SubSeq(listing_soup.name,
                                                SkipDigits(listing_soup.name, 1) + 1,
                                                Len(listing_soup.name)))
           /\ HasLeadingOrdinal(designer.name)
                  => LET d == SkipDigits(listing_soup.name, 1)
                         rest == SubSeq(listing_soup.name, d, Len(listing_soup.name))
                     IN  /\ d > 1
                         /\ HasLeadingOrdinal(
                                StripSpaces(IF rest # <<>> /\ rest[1] = "."
                                            THEN Tail(rest) ELSE rest))

\* C19 witness: "1. A  b" yielded the Record named "A b"
C19_Witness ==
    /\ parsed
    /\ listing_soup.name = <<"1", ".", " ", "A", " ", " ", "b">>
    /\ designer # NoDesigner
    /\ designer.name = <<"A", " ", "b">>

-----------------------------------------------------------------------------
(* Phone claims *)

\* the text reads "(XXX) XXX-XXXX"
IsTenDigitForm(chars) ==
    /\ Len(chars) = 14
    /\ chars[1] = "(" /\ chars[5] = ")" /\ chars[6] = " " /\ chars[10] = "-"
    /\ \A i \in {2, 3, 4, 7, 8, 9, 11, 12, 13, 14} : IsPhoneDigit(chars[i])

\* the text reads "+1 (XXX) XXX-XXXX"
IsElevenDigitForm(chars) ==
    /\ Len(chars) = 17
    /\ SubSeq(chars, 1, 3) = <<"+", "1", " ">>
    /\ IsTenDigitForm(SubSeq(chars, 4, 17))

\* C20: a phone with exactly 10 digits becomes "(XXX) XXX-XXXX" and one with
\* exactly 11 digits of which the first is 1 becomes "+1 (XXX) XXX-XXXX",
\* with the digits in their order; any other phone is passed through
\* trimmed; normalizing the result changes nothing.
C20_PhoneNormalization ==
    /\ (phonePc # "input" /\ phone # NoObject)
           => LET digits == DigitsOf(phone.text)
              IN  CASE Len(digits) = 10
                         -> /\ IsTenDigitForm(phoneOut.text)
                            /\ DigitsOf(phoneOut.text) = digits
                    [] Len(digits) = 11 /\ digits[1] = "1"
                         -> /\ IsElevenDigitForm(phoneOut.text)
                            /\ DigitsOf(phoneOut.text) = digits
                    [] OTHER -> phoneOut.text = StripSpaces(phone.text)
    /\ (phonePc # "input" /\ phone = NoObject) => phoneOut = NoObject
    /\ phonePc = "twice" => phoneAgain = phoneOut

\* C20 witness: "1-212-555-0100 " became "+1 (212) 555-0100" and stayed so
C20_Witness ==
    /\ phonePc = "twice"
    /\ phone = PhoneText(<<"1", "-", "2", "1", "2", "-", "5", "5", "5", "-",
                           "0", "1", "0", "0", " ">>)
    /\ phoneOut = PhoneText(<<"+", "1", " ", "(", "2", "1", "2", ")", " ",
                              "5", "5", "5", "-", "0", "1", "0", "0">>)
    /\ phoneAgain = phoneOut

-----------------------------------------------------------------------------
(* Output routing claims *)

\* the designers of the sources without an output_file, in scrape order
RECURSIVE CombinedYield(_)
CombinedYield(yield) ==
    IF yield = <<>> THEN <<>>
    ELSE (IF HasOutputFile(Head(yield).site) THEN <<>> ELSE Head(yield).designers)
             \o CombinedYield(Tail(yield))

Exported(path, ds) ==
    \E i \in 1..Len(exportCalls) :
        exportCalls[i].path = path /\ exportCalls[i].designers = ds

\* C21: when a run is over, the records of every scraped source that has an
\* output_file were exported to that file and, batch by batch, to its
\* per-page files; the combined output received exactly the records of the
\* sources without an output_file.
C21_CustomOutputExclusive ==
    mainPc = "done"
        => /\ \A i \in 1..Len(siteYield) :
                  LET y == siteYield[i]
                  IN  (HasOutputFile(y.site) /\ y.designers # <<>>)
                          => /\ Exported(OutputPath(y.site, 0), y.designers)
                             /\ \A k \in 1..Len(y.page_results) :
                                    y.page_results[k].designers # <<>>
                                        => Exported(OutputPath(y.site,
                                                        y.page_results[k].page_num),
                                                    y.page_results[k].designers)
           /\ all_designers = CombinedYield(siteYield)
           /\ all_designers # <<>> => Exported(MainOutputPath, all_designers)

-----------------------------------------------------------------------------
(* Merge claims *)

\* the rows of the files that merge reads, each with its file's label
RECURSIVE TaggedUnion(_)
TaggedUnion(files) ==
    IF files = <<>> THEN <<>>
    ELSE LET f == Head(files)
         IN  (IF f.stem[1] # "master" /\ f.readable
              THEN [i \in 1..Len(f.rows) |->
                       [name |-> Strip(f.rows[i].name),
                        website |-> Strip(f.rows[i].website),
                        email |-> Strip(f.rows[i].email),
                        source |-> IF f.stem[2] \in LabelSuffixes
                                   THEN <<f.stem[1]>> ELSE f.stem]]
              ELSE <<>>) \o TaggedUnion(Tail(files))

\* lowercased name together with lowercased website-or-email-or-name
RowIdentity(row) ==
    <<Lower(row.name), Lower(Or(row.website, Or(row.email, row.name)))>>

RECURSIVE RowsAt(_, _, _)
RowsAt(R, keep, i) ==
    IF i > Len(R) THEN <<>>
    ELSE (IF i \in keep THEN <<R[i]>> ELSE <<>>) \o RowsAt(R, keep, i + 1)

\* C22 as stated: the master table holds, in order, the first row of each
\* identity key (lowercased name with lowercased website-or-email-or-name)
\* of the union of the files, each row tagged with its file's label.
C22_MergeByIdentityKey ==
    (mergePc = "done" /\ dedupe)
        => LET U == TaggedUnion(mergeFiles)
               first == {i \in 1..Len(U) :
                            \A j \in 1..(i - 1) : RowIdentity(U[j]) # RowIdentity(U[i])}
           IN  master = RowsAt(U, first, 1)

\* C22 amended: the master table holds, in order, the first row of each
\* lowercased name of the union of the files and every row without a name,
\* each row tagged with its file's label.
C22_MergeByName ==
    (mergePc = "done" /\ dedupe)
        => LET U == TaggedUnion(mergeFiles)
               first == {i \in 1..Len(U) :
                            \/ U[i].name = ""
                            \/ \A j \in 1..(i - 1) : Lower(U[j].name) # Lower(U[i].name)}
           IN  master = RowsAt(U, first, 1)

\* C22 witness: "Acme" with a website in the first file, "acme" without one
\* in the other; the master table holds the first only
C22_Witness ==
    /\ mergePc = "done"
    /\ dedupe
    /\ mergeFiles[1].rows = <<CsvRow("Acme", "ACME", "")>>
    /\ mergeFiles[3].rows = <<CsvRow("acme", "", "")>>
    /\ mergeFiles[3].readable
    /\ master = <<[name |-> "Acme", website |-> "ACME", email |-> "",
                   source |-> <<"asid">>]>>

-----------------------------------------------------------------------------
(* Scripted-browser claims *)

\* scrape has returned, raised, or was interrupted
RunEnded == pc \in {"done", "fault", "interrupted"}

C24_TimeoutIsOnlyAWarning ==
    (requires_js /\ rendered # NoObject)
        => ((rendered.created /\ rendered.soup # NoSoup) => lastDoc = rendered.soup)

-----------------------------------------------------------------------------
(* Pagination claims *)

\* the step fetched a page and the fetch gave no document
FetchFailedStep ==
    /\ Len(requested') = Len(requested) + 1
    /\ lastDoc' = NoSoup

PaginatedList == config.list_url /\ config.enabled

\* C25: a failed page fetch never ends the run by a fault and leaves the
\* records collected so far untouched; a paginated-list run goes on with the
\* next page and, unless the cap ends it, has fetched every page of its
\* range when it returns; a search run returns what it has.
C25_FetchFailureNotFatal ==
    /\ [][FetchFailedStep
             => /\ designers' = designers
                /\ page_results' = page_results
                /\ pc = "range" => (pc' = "range" /\ page_num' = page_num + 1)
                /\ pc = "search" => pc' = "done"
                /\ pc = "single" => pc' = "done"]_vars
    /\ []((pc = "done" /\ PaginatedList)
             => \/ Len(requested) = config.end_page - config.start_page + 1
                \/ CapReached(Len(designers), max_results))

\* C25 witness: page 1 of a two-page range gave records, page 2 could not be
\* fetched, and the run returned the records of page 1
C25_Witness ==
    /\ pc = "done"
    /\ PaginatedList
    /\ config.start_page = 1 /\ config.end_page = 2
    /\ max_results = 0
    /\ Len(requested) = 2
    /\ lastDoc = NoSoup
    /\ designers # <<>>
    /\ Len(page_results) = 1

\* the page number a requested list URL stands for
PageOf(url) == IF url[2] = 0 THEN 1 ELSE url[2]

\* C26: in a paginated-list run the pages requested so far are pages of the
\* range in ascending order without repetition, and a configured delay was
\* slept exactly once before each requested page but the first (also when
\* the page before failed), never before the first.
C26_AscendingPagesWithDelay ==
    (PaginatedList /\ pc \in {"range", "done"})
        => /\ \A i \in 1..Len(requested) :
                  PageOf(requested[i]) \in config.start_page..config.end_page
           /\ \A i, j \in 1..Len(requested) :
                  i < j => PageOf(requested[i]) < PageOf(requested[j])
           /\ requested # <<>> => PageOf(requested[1]) = config.start_page
           /\ IF delay_between_pages > 0
              THEN delays = [i \in 1..(Len(requested) - 1) |-> PageOf(requested[i + 1])]
              ELSE delays = <<>>

\* C26 witness: page 1 of the range 1..2 failed, the delay was slept once,
\* before page 2, and page 2 was fetched
C26_Witness ==
    /\ pc = "done"
    /\ PaginatedList
    /\ delay_between_pages > 0
    /\ Len(requested) = 2
    /\ delays = <<2>>
    /\ Len(page_results) = 1
    /\ page_results[1].page_num = 2

-----------------------------------------------------------------------------
(* Field-repair claims *)

\* the cell reads local@domain.tld from its first to its last character
IsEmailAddress(chars) ==
    \E at \in 2..Len(chars) :
        /\ chars[at] = "@"
        /\ \A i \in 1..(at - 1) : IsLocalChar(chars[i])
        /\ \E k \in (at + 2)..(Len(chars) - 2) :
               /\ chars[k] = "."
               /\ \A i \in (at + 1)..(k - 1) : IsDomainChar(chars[i])
               /\ \A i \in (k + 1)..Len(chars) : IsLetter(chars[i])

\* the characters of a cell before its first letter
DigitPrefixOf(cell) ==
    SubSeq(cell, 1, RunEnd(cell, 1, {c \in CharsOf(cell) : ~IsLetter(c)}) - 1)

EmailPartOf(cell) ==
    SubSeq(cell, RunEnd(cell, 1, {c \in CharsOf(cell) : ~IsLetter(c)}), Len(cell))

\* C27: for a contact cell made of a digit prefix followed by an email
\* address, the repaired row has the email address alone in the email
\* column; its phone column holds the prefix when that has 7 or more digits
\* and the column was empty, its zip column holds the prefix when that has
\* exactly 5 digits and the column was empty, and either column is otherwise
\* as it was; repairing any repaired row again changes nothing.
C27_ContactCellSplit ==
    /\ repairPc # "input"
           => LET cell == StripSpaces(contactRow.email)
                  prefix == StripSpaces(DigitPrefixOf(cell))
                  digits == Len(DigitsOf(prefix))
              IN  (prefix # <<>> /\ IsPhoneDigit(prefix[1])
                      /\ IsEmailAddress(EmailPartOf(cell)))
                      => /\ cleaned.email = EmailPartOf(cell)
                         /\ cleaned.phone =
                                IF StripSpaces(contactRow.phone) = <<>> /\ digits >= 7
                                THEN prefix ELSE contactRow.phone
                         /\ cleaned.zip_code =
                                IF StripSpaces(contactRow.zip_code) = <<>> /\ digits = 5
                                THEN prefix ELSE contactRow.zip_code
    /\ repairPc = "twice" => cleanedAgain = cleaned

\* C27 witness: "2525252a@b.co" with an empty phone column was split into
\* the phone 2525252 and the email a@b.co, and a second pass kept the row
C27_Witness ==
    /\ repairPc = "twice"
    /\ contactRow = ContactRow(<<"2", "5", "2", "5", "2", "5", "2",
                                 "a", "@", "b", ".", "c", "o">>, <<>>, <<>>)
    /\ cleaned = ContactRow(<<"a", "@", "b", ".", "c", "o">>,
                            <<"2", "5", "2", "5", "2", "5", "2">>, <<>>)
    /\ cleanedAgain = cleaned

-----------------------------------------------------------------------------
(* C28: the combined list and the per-page batches *)

\* the records of the stored page batches, in the order they were stored
RECURSIVE BatchRecords(_)
BatchRecords(batches) ==
    IF batches = <<>> THEN <<>>
    ELSE Head(batches).designers \o BatchRecords(Tail(batches))

\* C28: after every run over a paginated list, the combined record list
\* returned for the site equals the concatenation, in page order, of the
\* per-page batches stored for per-page output.
C28_CombinedIsConcatOfBatches ==
    (pc = "done" /\ PaginatedList) => designers = BatchRecords(page_results)

-----------------------------------------------------------------------------
(* C29: what an export with append leaves of the rows that were in the file *)

\* export(ds, append=True, ...) was called on the file, whatever the batch,
\* the dedup flag and the number of rows _load_existing could read back
AppendExport ==
    \E b \in SeqsOf(ExportDesigners, 1, MaxBatch), dd \in BOOLEAN :
        \E n \in 0..Len(fileRows) : Export(b, TRUE, dd, n)

\* the rows that were in the file are its first rows afterwards, unchanged
KeepsPersistedRows ==
    /\ Len(fileRows') >= Len(fileRows)
    /\ SubSeq(fileRows', 1, Len(fileRows)) = fileRows

\* C29: an export with append never removes or rewrites rows already in the
\* output file, also when the file cannot be read back or holds only a
\* header.
C29_AppendKeepsPersistedRows ==
    [][AppendExport => KeepsPersistedRows]_vars

-----------------------------------------------------------------------------
(* C30: termination of the search loop *)

\* C30: a search run given a result cap of at least 1 always terminates:
\* whatever the fetched pages contain, provided each fetch returns, the run
\* eventually returns a record list.
C30_SearchTerminates == <>(pc = "done")

====
